---- MODULE Spec2Model ----
(***************************************************************************)
(* Slitherlink solver of jakemuncada/slitherlink-squares.                  *)
(*                                                                         *)
(* The model follows src/src/puzzle: the board (board.py), the size-only   *)
(* topology (board_tools.py), the cell snapshot (cell_info.py), the        *)
(* clue-only first pass (solver/initial.py) and the solver proper          *)
(* (solver/solver.py, solver/tools.py).                                    *)
(***************************************************************************)
EXTENDS Integers, Sequences, FiniteSets, TLC

(***************************************************************************)
(* enums.py                                                                *)
(***************************************************************************)
\* Optional values: Python's None (OptInt, cell groups, "no guess").
None == -1

\* BorderStatus
UNSET == 0
ACTIVE == 1
BLANK == 2

\* CardinalDirection
TOP == 0
RIGHT == 1
BOT == 2
LEFT == 3

\* DiagonalDirection
ULEFT == 0
URIGHT == 1
LRIGHT == 2
LLEFT == 3

\* CornerEntry
POKE == 0
SMOOTH == 1
UNKNOWN == 2

CardinalDirection == <<TOP, RIGHT, BOT, LEFT>>

DiagonalDirection == <<ULEFT, URIGHT, LRIGHT, LLEFT>>

\* A BorderStatus.opposite that gives the status back.
oppositeSame(status) == status

\* BorderStatus.opposite; UNSET has no opposite (ValueError), never asked for.
opposite(status) ==
    IF status = ACTIVE THEN BLANK ELSE ACTIVE

\* DiagonalDirection.opposite
dxnOpposite(dxn) ==
    CASE dxn = URIGHT -> LLEFT
      [] dxn = LRIGHT -> ULEFT
      [] dxn = LLEFT -> URIGHT
      [] OTHER -> LRIGHT

\* CornerEntry.opposite
entryOpposite(entry) ==
    IF entry = POKE THEN SMOOTH ELSE POKE

(***************************************************************************)
(* Sequence helpers (Python list idioms)                                   *)
(***************************************************************************)
Range(s) == {s[i] : i \in DOMAIN s}

\* A local name: With([x \in {value} |-> body]) is body with x standing for value.
With(f) == f[CHOOSE x \in DOMAIN f : TRUE]

InSeq(x, s) == \E i \in DOMAIN s : s[i] = x

(***************************************************************************)
(* board_tools.py: functions of the board size only                        *)
(***************************************************************************)
_isValidCellIdx(rows, cols, row, col) ==
    row >= 0 /\ row < rows /\ col >= 0 /\ col < cols

_numBorders(rows, cols) == (((cols * 2) + 1) * rows) + cols

_isValidBorderIdx(rows, cols, borderIdx) ==
    borderIdx >= 0 /\ borderIdx < _numBorders(rows, cols)

\* The cell that shares only a corner; <<>> stands for None.
_getCellIdxAtDiagCorner(rows, cols, row, col, dxn) ==
    LET targetRow == IF dxn \in {ULEFT, URIGHT} THEN row - 1 ELSE row + 1
        targetCol == IF dxn \in {ULEFT, LLEFT} THEN col - 1 ELSE col + 1
    IN
    IF ~_isValidCellIdx(rows, cols, targetRow, targetCol)
    THEN <<>>
    ELSE <<targetRow, targetCol>>

\* The cell across a border; <<None, None>> when there is none.
_getCellIdxOfAdjCell(rows, cols, row, col, dxn) ==
    LET targetRow == CASE dxn = TOP -> row - 1
                       [] dxn = BOT -> row + 1
                       [] OTHER -> row
        targetCol == CASE dxn = RIGHT -> col + 1
                       [] dxn = LEFT -> col - 1
                       [] OTHER -> col
    IN
    IF ~_isValidCellIdx(rows, cols, targetRow, targetCol)
    THEN <<None, None>>
    ELSE <<targetRow, targetCol>>

_getBorderIdx(cols, row, col, direction) ==
    LET idx == ((cols * 2) + 1) * row
    IN
    CASE direction = TOP -> idx + col
      [] direction = LEFT -> idx + cols + col
      [] direction = RIGHT -> idx + cols + col + 1
      [] OTHER -> idx + (cols * 2) + 1 + col

_getCellBorders(cols, row, col) ==
    << _getBorderIdx(cols, row, col, TOP),
       _getBorderIdx(cols, row, col, RIGHT),
       _getBorderIdx(cols, row, col, BOT),
       _getBorderIdx(cols, row, col, LEFT) >>

\* The threshold walk of _isBorderHorizontal from (thresholdIdx, isHorizontal).
RECURSIVE isBorderHorizontalFrom(_, _, _, _)
isBorderHorizontalFrom(cols, borderIdx, thresholdIdx, isHorizontal) ==
    IF borderIdx < thresholdIdx
    THEN isHorizontal
    ELSE isBorderHorizontalFrom(cols, borderIdx,
            IF isHorizontal THEN thresholdIdx + cols + 1 ELSE thresholdIdx + cols,
            ~isHorizontal)

\* Only the borders of the top row of borders taken as horizontal.
horizontalInTopRow(cols, borderIdx) == borderIdx < cols

_isBorderHorizontal(cols, borderIdx) ==
    isBorderHorizontalFrom(cols, borderIdx, cols, TRUE)

\* The list of those candidates (in order) whose condition holds.
RECURSIVE appendWhere(_)
appendWhere(cands) ==
    IF cands = <<>>
    THEN <<>>
    ELSE IF Head(cands)[1]
         THEN <<Head(cands)[2]>> \o appendWhere(Tail(cands))
         ELSE appendWhere(Tail(cands))

_getConnectedBorders(rows, cols, borderIdx) ==
    LET valid(i) == _isValidBorderIdx(rows, cols, i)
        horiz(i) == _isBorderHorizontal(cols, i)
    IN
    IF _isBorderHorizontal(cols, borderIdx)
    THEN << appendWhere(<<
              <<valid(borderIdx - (cols + 1)), borderIdx - (cols + 1)>>,
              <<horiz(borderIdx - 1) /\ valid(borderIdx - 1), borderIdx - 1>>,
              <<valid(borderIdx + cols), borderIdx + cols>> >>),
            appendWhere(<<
              <<valid(borderIdx - cols), borderIdx - cols>>,
              <<horiz(borderIdx + 1) /\ valid(borderIdx + 1), borderIdx + 1>>,
              <<valid(borderIdx + cols + 1), borderIdx + cols + 1>> >>) >>
    ELSE << appendWhere(<<
              <<valid(borderIdx - (cols + 1)) /\ horiz(borderIdx - (cols + 1)),
                borderIdx - (cols + 1)>>,
              <<valid(borderIdx - ((cols * 2) + 1)), borderIdx - ((cols * 2) + 1)>>,
              <<valid(borderIdx - cols) /\ horiz(borderIdx - cols),
                borderIdx - cols>> >>),
            appendWhere(<<
              <<valid(borderIdx + cols) /\ horiz(borderIdx + cols),
                borderIdx + cols>>,
              <<valid(borderIdx + ((cols * 2) + 1)), borderIdx + ((cols * 2) + 1)>>,
              <<valid(borderIdx + cols + 1) /\ horiz(borderIdx + cols + 1),
                borderIdx + cols + 1>> >>) >>

_getConnectedBordersList(rows, cols, borderIdx) ==
    With([conn \in {_getConnectedBorders(rows, cols, borderIdx)} |->
    conn[1] \o conn[2]])

\* The borders at the vertex two borders share; <<>> stands for None
\* (a shared vertex always holds the second border, so never the empty list).
_getCommonVertex(rows, cols, borderIdx1, borderIdx2) ==
    With([conn \in {_getConnectedBorders(rows, cols, borderIdx1)} |->
    IF InSeq(borderIdx2, conn[1]) THEN conn[1]
    ELSE IF InSeq(borderIdx2, conn[2]) THEN conn[2]
    ELSE <<>>])

_getCornerBorderIndices(cols, row, col, cornerDir) ==
    LET d1 == IF cornerDir \in {ULEFT, URIGHT} THEN TOP ELSE BOT
        d2 == IF cornerDir \in {ULEFT, LLEFT} THEN LEFT ELSE RIGHT
    IN
    << _getBorderIdx(cols, row, col, d1), _getBorderIdx(cols, row, col, d2) >>

\* The borders at the corner taken from the connected borders as they are,
\* the cell's other border at the corner among them.
armsUnfiltered(rows, cols, row, col, cornerDir) ==
    CASE cornerDir = ULEFT ->
           _getConnectedBorders(rows, cols, _getBorderIdx(cols, row, col, TOP))[1]
      [] cornerDir = URIGHT ->
           _getConnectedBorders(rows, cols, _getBorderIdx(cols, row, col, TOP))[2]
      [] cornerDir = LRIGHT ->
           _getConnectedBorders(rows, cols, _getBorderIdx(cols, row, col, BOT))[2]
      [] OTHER ->
           _getConnectedBorders(rows, cols, _getBorderIdx(cols, row, col, BOT))[1]

_getArms(rows, cols, row, col, cornerDir) ==
    With([topBdrIdx \in {_getBorderIdx(cols, row, col, TOP)} |->
    With([rightBdrIdx \in {_getBorderIdx(cols, row, col, RIGHT)} |->
    With([botBdrIdx \in {_getBorderIdx(cols, row, col, BOT)} |->
    With([leftBdrIdx \in {_getBorderIdx(cols, row, col, LEFT)} |->
    LET notUL(b) == b # topBdrIdx /\ b # leftBdrIdx
        notUR(b) == b # topBdrIdx /\ b # rightBdrIdx
        notLR(b) == b # botBdrIdx /\ b # rightBdrIdx
        notLL(b) == b # botBdrIdx /\ b # leftBdrIdx
    IN
    CASE cornerDir = ULEFT ->
           SelectSeq(_getConnectedBorders(rows, cols, topBdrIdx)[1], notUL)
      [] cornerDir = URIGHT ->
           SelectSeq(_getConnectedBorders(rows, cols, topBdrIdx)[2], notUR)
      [] cornerDir = LRIGHT ->
           SelectSeq(_getConnectedBorders(rows, cols, botBdrIdx)[2], notLR)
      [] OTHER ->
           SelectSeq(_getConnectedBorders(rows, cols, botBdrIdx)[1], notLL)])])])])

\* Only asked for valid cells (IndexError otherwise).
_getArmsOfCell(rows, cols, row, col) ==
    << _getArms(rows, cols, row, col, ULEFT),
       _getArms(rows, cols, row, col, URIGHT),
       _getArms(rows, cols, row, col, LRIGHT),
       _getArms(rows, cols, row, col, LLEFT) >>

(***************************************************************************)
(* Exceptions.  A rule works on a record w holding the board it was given  *)
(* (sizes, cells, borders, cell groups), the solver's corner entries, the  *)
(* pending exception exc and the value ret the last call returned.  Once   *)
(* exc is set nothing is written any more: the exception unwinds to the    *)
(* handler, and what had been written before it stays written.             *)
(***************************************************************************)
NoException == "None"

InvalidBoardException == "InvalidBoardException"

AssertionError == "AssertionError"

UnboundLocalError == "UnboundLocalError"

ValueError == "ValueError"

TypeError == "TypeError"

\* While an exception unwinds no call returns a value: ret reads FALSE.
raise(w, exception) ==
    IF w.exc # NoException THEN w ELSE [w EXCEPT !.exc = exception, !.ret = FALSE]

return(w, value) ==
    IF w.exc # NoException THEN w ELSE [w EXCEPT !.ret = value]

\* found | <call>: the call is made, its result is or-ed into found.
orRet(found, w) ==
    IF w.exc # NoException THEN w ELSE [w EXCEPT !.ret = found \/ w.ret]

(***************************************************************************)
(* BoardTools: the size-only functions at the sizes held in BoardTools     *)
(***************************************************************************)
isValidCellIdx(w, row, col) == _isValidCellIdx(w.bt.rows, w.bt.cols, row, col)

isValidBorderIdx(w, borderIdx) == _isValidBorderIdx(w.bt.rows, w.bt.cols, borderIdx)

getCellIdxOfAdjCell(w, row, col, dxn) ==
    _getCellIdxOfAdjCell(w.bt.rows, w.bt.cols, row, col, dxn)

getCellIdxAtDiagCorner(w, row, col, dxn) ==
    _getCellIdxAtDiagCorner(w.bt.rows, w.bt.cols, row, col, dxn)

getBorderIdx(w, row, col, direction) == _getBorderIdx(w.bt.cols, row, col, direction)

getCellBorders(w, row, col) == _getCellBorders(w.bt.cols, row, col)

\* BoardTools.isBorderHorizontal hands _isBorderHorizontal the border index alone,
\* without cols: the call of the two-argument function raises TypeError.
isBorderHorizontal(w, borderIdx) == [exc |-> TypeError, ret |-> None]

getConnectedBorders(w, borderIdx) == _getConnectedBorders(w.bt.rows, w.bt.cols, borderIdx)

getConnectedBordersList(w, borderIdx) ==
    _getConnectedBordersList(w.bt.rows, w.bt.cols, borderIdx)

getCommonVertex(w, borderIdx1, borderIdx2) ==
    _getCommonVertex(w.bt.rows, w.bt.cols, borderIdx1, borderIdx2)

getCornerBorderIndices(w, row, col, cornerDir) ==
    _getCornerBorderIndices(w.bt.cols, row, col, cornerDir)

getArms(w, row, col, cornerDir) == _getArms(w.bt.rows, w.bt.cols, row, col, cornerDir)

getArmsOfCell(w, row, col) == _getArmsOfCell(w.bt.rows, w.bt.cols, row, col)

(***************************************************************************)
(* board.py: getters                                                       *)
(***************************************************************************)
getBorderStatus(w, row, col, direction) ==
    w.borders[getBorderIdx(w, row, col, direction)]

getCornerStatus(w, row, col, dxn) ==
    With([bdrs \in {getCornerBorderIndices(w, row, col, dxn)} |->
    << w.borders[bdrs[1]], w.borders[bdrs[2]] >>])

getArmsStatus(w, row, col, dxn) ==
    With([arms \in {getArms(w, row, col, dxn)} |->
    [i \in DOMAIN arms |-> w.borders[arms[i]]]])

\* The group of the cell across each border; 0 where there is no cell.
getAdjCellGroups(w, row, col) ==
    [i \in 1..4 |->
        With([adj \in {getCellIdxOfAdjCell(w, row, col, CardinalDirection[i])} |->
        IF adj[1] # None /\ adj[2] # None THEN w.cellGroups[adj] ELSE 0])]

isComplete(borders) == \A idx \in DOMAIN borders : borders[idx] # UNSET

(***************************************************************************)
(* cell_info.py: the snapshot of a cell taken by CellInfo.init             *)
(***************************************************************************)
CellInfo(w, row, col) ==
    With([bdrIndices \in {getCellBorders(w, row, col)} |->
    LET bdrStats == [i \in 1..4 |-> w.borders[bdrIndices[i]]]
        withStat(stat) == {bdrIndices[i] : i \in {j \in 1..4 : bdrStats[j] = stat}}
        countStat(stat) == Cardinality({j \in 1..4 : bdrStats[j] = stat})
    IN
    [ row |-> row, col |-> col,
      reqNum |-> w.cells[<<row, col>>],
      cellGroup |-> w.cellGroups[<<row, col>>],
      bdrIndices |-> bdrIndices,
      topIdx |-> bdrIndices[1], rightIdx |-> bdrIndices[2],
      botIdx |-> bdrIndices[3], leftIdx |-> bdrIndices[4],
      cornerBdrs |-> << <<bdrIndices[1], bdrIndices[4]>>,
                        <<bdrIndices[1], bdrIndices[2]>>,
                        <<bdrIndices[3], bdrIndices[2]>>,
                        <<bdrIndices[3], bdrIndices[4]>> >>,
      bdrStats |-> bdrStats,
      topBdr |-> bdrStats[1], rightBdr |-> bdrStats[2],
      botBdr |-> bdrStats[3], leftBdr |-> bdrStats[4],
      bdrUnsetCount |-> countStat(UNSET),
      bdrActiveCount |-> countStat(ACTIVE),
      bdrBlankCount |-> countStat(BLANK),
      unsetBorders |-> withStat(UNSET),
      activeBorders |-> withStat(ACTIVE),
      blankBorders |-> withStat(BLANK) ]])

(***************************************************************************)
(* solver/tools.py                                                         *)
(***************************************************************************)
\* <<countUnset, countActive, countBlank>> over a list of border indices.
getStatusCount(w, bdrIdxList) ==
    LET count(stat) == Cardinality({i \in DOMAIN bdrIdxList : w.borders[bdrIdxList[i]] = stat})
    IN
    << count(UNSET), count(ACTIVE), count(BLANK) >>

isAdjCellReqNumEqualTo(w, row, col, dxn, query) ==
    With([adj \in {getCellIdxOfAdjCell(w, row, col, dxn)} |->
    IF adj[1] = None \/ adj[2] = None THEN FALSE ELSE w.cells[adj] = query])

isContinuous(w, borderIdx1, borderIdx2) ==
    IF ~isValidBorderIdx(w, borderIdx1) THEN FALSE
    ELSE IF ~isValidBorderIdx(w, borderIdx2) THEN FALSE
    ELSE IF w.borders[borderIdx1] = BLANK THEN FALSE
    ELSE IF w.borders[borderIdx2] = BLANK THEN FALSE
    ELSE With([commonBorders \in {getCommonVertex(w, borderIdx1, borderIdx2)} |->
         IF commonBorders = <<>> THEN FALSE
         ELSE \A i \in DOMAIN commonBorders :
                  (commonBorders[i] # borderIdx1 /\ commonBorders[i] # borderIdx2)
                      => w.borders[commonBorders[i]] = BLANK])

\* ret: whether the cell is poked along a chain of 2-cells; may raise.
RECURSIVE isCellIndirectPokedByPropagation(_, _, _)
isCellIndirectPokedByPropagation(w, currCellIdx, dxn) ==
    IF w.exc # NoException THEN w
    ELSE IF currCellIdx = <<>> THEN return(w, FALSE)
    ELSE IF ~isValidCellIdx(w, currCellIdx[1], currCellIdx[2]) THEN return(w, FALSE)
    ELSE IF w.cells[currCellIdx] = 3 THEN return(w, TRUE)
    ELSE With([cornerBdrs \in {getCornerBorderIndices(w, currCellIdx[1], currCellIdx[2],
                                                      dxnOpposite(dxn))} |->
         With([countActive \in {getStatusCount(w, cornerBdrs)[2]} |->
         IF countActive > 1 THEN raise(w, InvalidBoardException)
         ELSE IF countActive = 1 THEN return(w, TRUE)
         ELSE IF w.cells[currCellIdx] # 2 THEN return(w, FALSE)
         ELSE isCellIndirectPokedByPropagation(w,
                  getCellIdxAtDiagCorner(w, currCellIdx[1], currCellIdx[2], dxn), dxn)])])

\* The runs of mutually continuous UNSET borders around a cell.
getContinuousUnsetBordersOfCell(w, cellInfo) ==
    LET topBdr == cellInfo.bdrIndices[1]
        rightBdr == cellInfo.bdrIndices[2]
        botBdr == cellInfo.bdrIndices[3]
        leftBdr == cellInfo.bdrIndices[4]
        isTopUnset == w.borders[topBdr] = UNSET
        isRightUnset == w.borders[rightBdr] = UNSET
        isBotUnset == w.borders[botBdr] = UNSET
        isLeftUnset == w.borders[leftBdr] = UNSET
    IN
    IF isTopUnset /\ isRightUnset /\ isBotUnset
       /\ isContinuous(w, topBdr, rightBdr) /\ isContinuous(w, rightBdr, botBdr)
    THEN << <<topBdr, rightBdr, botBdr>> >>
    ELSE IF isRightUnset /\ isBotUnset /\ isLeftUnset
       /\ isContinuous(w, rightBdr, botBdr) /\ isContinuous(w, botBdr, leftBdr)
    THEN << <<rightBdr, botBdr, leftBdr>> >>
    ELSE IF isBotUnset /\ isLeftUnset /\ isTopUnset
       /\ isContinuous(w, botBdr, leftBdr) /\ isContinuous(w, leftBdr, topBdr)
    THEN << <<botBdr, leftBdr, topBdr>> >>
    ELSE IF isLeftUnset /\ isTopUnset /\ isRightUnset
       /\ isContinuous(w, leftBdr, topBdr) /\ isContinuous(w, topBdr, rightBdr)
    THEN << <<leftBdr, topBdr, rightBdr>> >>
    ELSE appendWhere(<<
           <<isTopUnset /\ isRightUnset /\ isContinuous(w, topBdr, rightBdr),
             <<topBdr, rightBdr>> >>,
           <<isRightUnset /\ isBotUnset /\ isContinuous(w, rightBdr, botBdr),
             <<rightBdr, botBdr>> >>,
           <<isBotUnset /\ isLeftUnset /\ isContinuous(w, botBdr, leftBdr),
             <<botBdr, leftBdr>> >>,
           <<isLeftUnset /\ isTopUnset /\ isContinuous(w, leftBdr, topBdr),
             <<leftBdr, topBdr>> >> >>)

\* Whether the cell pokes out of its dxn corner (ret); may raise.
isCellPokingAtDir(w, cellInfo, dxn) ==
    LET oppoDxn == dxnOpposite(dxn)
        entry == w.cornerEntries[<<cellInfo.row, cellInfo.col>>][dxn + 1]
        bdrStat1 == w.borders[cellInfo.cornerBdrs[dxn + 1][1]]
        bdrStat2 == w.borders[cellInfo.cornerBdrs[dxn + 1][2]]
        bothUnset == bdrStat1 = UNSET /\ bdrStat2 = UNSET
    IN
    With([activeArmsThisDxn \in {getStatusCount(w, getArms(w, cellInfo.row, cellInfo.col, dxn))[2]} |->
    With([activeArmsOppoDxn \in {getStatusCount(w, getArms(w, cellInfo.row, cellInfo.col, oppoDxn))[2]} |->
    LET bdrStat3 == w.borders[cellInfo.cornerBdrs[oppoDxn + 1][1]]
        bdrStat4 == w.borders[cellInfo.cornerBdrs[oppoDxn + 1][2]]
    IN
    IF w.exc # NoException THEN w
    ELSE IF entry = SMOOTH THEN return(w, FALSE)
    ELSE IF entry = POKE THEN return(w, TRUE)
    ELSE IF (bdrStat1 = ACTIVE /\ bdrStat2 = BLANK) \/ (bdrStat1 = BLANK /\ bdrStat2 = ACTIVE)
    THEN return(w, TRUE)
    ELSE IF cellInfo.reqNum = 1 /\ cellInfo.bdrBlankCount = 2 /\ bothUnset
    THEN return(w, TRUE)
    ELSE IF cellInfo.reqNum = 2
            /\ cellInfo.bdrActiveCount = 1 /\ cellInfo.bdrBlankCount = 1 /\ bothUnset
    THEN return(w, TRUE)
    ELSE IF cellInfo.reqNum = 2
            /\ (  (activeArmsThisDxn > 1 /\ activeArmsOppoDxn > 0)
               \/ (activeArmsThisDxn > 0 /\ activeArmsOppoDxn > 1))
    THEN raise(w, InvalidBoardException)
    ELSE IF cellInfo.reqNum = 2 /\ activeArmsThisDxn = 1 /\ activeArmsOppoDxn = 1
    THEN return(w, TRUE)
    ELSE IF cellInfo.reqNum = 3 /\ cellInfo.bdrActiveCount > 1
            /\ bdrStat3 = ACTIVE /\ bdrStat4 = ACTIVE
    THEN return(w, TRUE)
    ELSE return(w, FALSE)])])

\* The corners the cell pokes out of, in DiagonalDirection order (ret).
RECURSIVE pokingDirsFrom(_, _, _, _)
pokingDirsFrom(w, cellInfo, i, dirs) ==
    IF w.exc # NoException \/ i > 4 THEN return(w, dirs)
    ELSE With([w1 \in {isCellPokingAtDir(w, cellInfo, DiagonalDirection[i])} |->
         pokingDirsFrom(w1, cellInfo, i + 1,
             IF w1.ret THEN Append(dirs, DiagonalDirection[i]) ELSE dirs)])

getDirectionsCellIsPokingAt(w, row, col) ==
    pokingDirsFrom(w, CellInfo(w, row, col), 1, <<>>)

(***************************************************************************)
(* solver/solver.py: setting borders                                       *)
(***************************************************************************)
\* Solver.setBorder: ret tells whether the border was set just now.
setBorder(w, borderIdx, newStatus) ==
    IF w.exc # NoException THEN w
    ELSE IF w.borders[borderIdx] = UNSET
    THEN [w EXCEPT !.borders[borderIdx] = newStatus, !.ret = TRUE]
    ELSE IF w.borders[borderIdx] # newStatus
    THEN raise(w, InvalidBoardException)
    ELSE return(w, FALSE)

\* for bdrIdx in bdrs: if setBorder(bdrIdx, status): found = True
RECURSIVE setEach(_, _, _)
setEach(w, bdrs, status) ==
    IF bdrs = <<>> THEN return(w, FALSE)
    ELSE With([w1 \in {setBorder(w, Head(bdrs), status)} |->
         orRet(w1.ret, setEach(w1, Tail(bdrs), status))])

\* for bdrIdx in bdrs: if setBorder(bdrIdx, status): return True
RECURSIVE setFirst(_, _, _)
setFirst(w, bdrs, status) ==
    IF bdrs = <<>> THEN return(w, FALSE)
    ELSE With([w1 \in {setBorder(w, Head(bdrs), status)} |->
         IF w1.exc # NoException \/ w1.ret THEN w1
         ELSE setFirst(w1, Tail(bdrs), status)])

\* The borders of a list that are UNSET now.
unsetOf(w, bdrs) ==
    LET isUnset(bdrIdx) == w.borders[bdrIdx] = UNSET
    IN
    SelectSeq(bdrs, isUnset)

\* self.cornerEntry[row][col][dxn] = entry, on the real board only.
noteCornerEntry(w, row, col, dxn, entry) ==
    IF w.isClone THEN w
    ELSE [w EXCEPT !.cornerEntry[<<row, col>>][dxn + 1] = entry]

(***************************************************************************)
(* solver/solver.py: pokes and smooth corners                              *)
(***************************************************************************)
RECURSIVE initiatePoke(_, _, _, _)
RECURSIVE handleCellPoke(_, _, _, _)
RECURSIVE handleSmoothCorner(_, _, _)

initiatePoke(w, origRow, origCol, dxn) ==
    IF w.exc # NoException THEN w
    ELSE
    With([w0 \in {noteCornerEntry(w, origRow, origCol, dxn, POKE)} |->
    LET targetRow == IF dxn \in {ULEFT, URIGHT} THEN origRow - 1 ELSE origRow + 1
        targetCol == IF dxn \in {ULEFT, LLEFT} THEN origCol - 1 ELSE origCol + 1
    IN
    With([arms \in {getArms(w0, origRow, origCol, dxn)} |->
    IF isValidCellIdx(w0, targetRow, targetCol)
    THEN handleCellPoke(w0, targetRow, targetCol, dxnOpposite(dxn))
    ELSE IF ~(Len(arms) < 2) THEN raise(w0, AssertionError)
    ELSE setFirst(w0, arms, ACTIVE)])])

handleCellPoke(w, row, col, dxn) ==
    IF w.exc # NoException THEN w
    ELSE
    LET reqNum == w.cells[<<row, col>>]
    IN
    With([w0 \in {noteCornerEntry(w, row, col, dxn, POKE)} |->
    With([corner \in {getCornerBorderIndices(w0, row, col, dxn)} |->
    With([oppCorner \in {getCornerBorderIndices(w0, row, col, dxnOpposite(dxn))} |->
    \* a border of the poked corner is ACTIVE: the other one goes
    With([w1 \in {IF w0.borders[corner[1]] = ACTIVE THEN setBorder(w0, corner[2], BLANK)
                  ELSE IF w0.borders[corner[2]] = ACTIVE THEN setBorder(w0, corner[1], BLANK)
                  ELSE return(w0, FALSE)} |->
    \* by requirement
    With([poked1 \in {setEach(w1, oppCorner, BLANK)} |->
    With([lone2 \in {IF w1.borders[oppCorner[1]] = BLANK THEN setBorder(w1, oppCorner[2], ACTIVE)
                     ELSE IF w1.borders[oppCorner[2]] = BLANK THEN setBorder(w1, oppCorner[1], ACTIVE)
                     ELSE return(w1, FALSE)} |->
    With([poked2 \in {orRet(lone2.ret, initiatePoke(lone2, row, col, dxnOpposite(dxn)))} |->
    With([opp3 \in {setEach(w1, oppCorner, ACTIVE)} |->
    With([arms \in {getArms(w0, row, col, dxn)} |->
    With([armCount \in {getStatusCount(opp3, arms)} |->
    With([poked3 \in {IF armCount[2] > 1 THEN raise(opp3, InvalidBoardException)
                      ELSE IF armCount[2] = 1 /\ armCount[1] > 0
                      THEN orRet(opp3.ret, setEach(opp3, unsetOf(opp3, arms), BLANK))
                      ELSE opp3} |->
    With([w2 \in {CASE reqNum = 1 -> poked1
                    [] reqNum = 2 -> poked2
                    [] reqNum = 3 -> poked3
                    [] OTHER -> return(w1, FALSE)} |->
    \* the poke activates a lone border of the poked corner
    With([w3 \in {IF w2.ret THEN w2
                  ELSE IF w2.borders[corner[1]] = BLANK THEN setBorder(w2, corner[2], ACTIVE)
                  ELSE IF w2.borders[corner[2]] = BLANK THEN setBorder(w2, corner[1], ACTIVE)
                  ELSE w2} |->
    \* one UNSET arm left among the arms of the other corners
    LET otherDxn(i) == DiagonalDirection[i] # dxn
        otherDxns == SelectSeq(<<1, 2, 3, 4>>, otherDxn)
    IN
    With([otherArms \in {getArms(w0, row, col, DiagonalDirection[otherDxns[1]])
                         \o getArms(w0, row, col, DiagonalDirection[otherDxns[2]])
                         \o getArms(w0, row, col, DiagonalDirection[otherDxns[3]])} |->
    With([otherCount \in {getStatusCount(w3, otherArms)} |->
    LET newStatus == IF otherCount[2] % 2 = 0 THEN ACTIVE ELSE BLANK
    IN
    With([w4 \in {IF w3.ret THEN w3
                  ELSE IF otherCount[1] = 1
                  THEN setEach(w3, unsetOf(w3, otherArms), newStatus)
                  ELSE w3} |->
    IF w1.exc # NoException THEN w1
    ELSE IF w1.ret THEN w1
    ELSE IF w3.exc # NoException THEN w3
    ELSE w4])])])])])])])])])])])])])])])])

handleSmoothCorner(w, cellInfo, dxn) ==
    IF w.exc # NoException THEN w
    ELSE
    LET row == cellInfo.row
        col == cellInfo.col
    IN
    With([w0 \in {IF w.isClone THEN w
                  ELSE IF cellInfo.reqNum = 2
                  THEN [w EXCEPT !.cornerEntry[<<row, col>>][dxn + 1] = SMOOTH,
                                 !.cornerEntry[<<row, col>>][dxnOpposite(dxn) + 1] = SMOOTH]
                  ELSE [w EXCEPT !.cornerEntry[<<row, col>>][dxn + 1] = SMOOTH]} |->
    LET cornerIdx1 == cellInfo.cornerBdrs[dxn + 1][1]
        cornerIdx2 == cellInfo.cornerBdrs[dxn + 1][2]
        cornerStat1 == w0.borders[cornerIdx1]
        cornerStat2 == w0.borders[cornerIdx2]
        \* the smooth corner with a single UNSET arm
    IN
    With([arms \in {getArms(w0, row, col, dxn)} |->
    With([unsetArms \in {unsetOf(w0, arms)} |->
    With([activeArmCount \in {getStatusCount(w0, arms)[2]} |->
    LET armStatus == IF activeArmCount % 2 = 0 THEN BLANK ELSE ACTIVE
    IN
    With([w1 \in {IF Len(unsetArms) = 1
                  THEN setBorder(w0, unsetArms[Len(unsetArms)], armStatus)
                  ELSE return(w0, FALSE)} |->
    \* by requirement
    LET both(status) == setEach(w1, <<cornerIdx1, cornerIdx2>>, status)
        dxn1 == IF dxn \in {ULEFT, LRIGHT} THEN URIGHT ELSE ULEFT
        dxn2 == IF dxn \in {ULEFT, LRIGHT} THEN LLEFT ELSE LRIGHT
    IN
    With([p1 \in {initiatePoke(w1, row, col, dxn1)} |->
    With([p2 \in {orRet(p1.ret, initiatePoke(p1, row, col, dxn2))} |->
    With([targetCellIdx \in {getCellIdxAtDiagCorner(w0, row, col, dxnOpposite(dxn))} |->
    With([smooth2 \in {
                 IF targetCellIdx # <<>>
                 THEN orRet(p2.ret,
                            handleSmoothCorner(p2, CellInfo(p2, targetCellIdx[1], targetCellIdx[2]), dxn))
                 ELSE With([a \in {setFirst(p2, getArms(w0, row, col, dxnOpposite(dxn)), BLANK)} |->
                      IF a.ret THEN a ELSE return(a, p2.ret)])} |->
    IF cornerStat1 = cornerStat2 /\ cornerStat1 # UNSET THEN return(w0, FALSE)
    ELSE IF cornerStat1 # cornerStat2
    THEN IF cornerStat1 = UNSET
         THEN return(setBorder(w0, cornerIdx1, cornerStat2), TRUE)
         ELSE IF cornerStat2 = UNSET
         THEN return(setBorder(w0, cornerIdx2, cornerStat1), TRUE)
         ELSE raise(w0, InvalidBoardException)
    ELSE IF w1.exc # NoException \/ w1.ret THEN w1
    ELSE CASE cellInfo.reqNum = 1 -> both(BLANK)
           [] cellInfo.reqNum = 3 -> both(ACTIVE)
           [] cellInfo.reqNum = 2 -> smooth2
           [] OTHER -> return(w1, FALSE)])])])])])])])])])

(***************************************************************************)
(* solver/solver.py: the rules of a single cell                            *)
(***************************************************************************)
fillOrRemoveRemainingUnsetBorders(w, cellInfo) ==
    LET isUnset(bdrIdx) == bdrIdx \in cellInfo.unsetBorders
        unsetBorders == SelectSeq(cellInfo.bdrIndices, isUnset)
    IN
    IF cellInfo.reqNum # None /\ cellInfo.bdrUnsetCount > 0
    THEN IF cellInfo.bdrUnsetCount + cellInfo.bdrActiveCount = cellInfo.reqNum
         THEN return(setEach(w, unsetBorders, ACTIVE), TRUE)
         ELSE IF cellInfo.bdrActiveCount = cellInfo.reqNum
         THEN return(setEach(w, unsetBorders, BLANK), TRUE)
         ELSE return(w, FALSE)
    ELSE return(w, FALSE)

checkThreeTwoThreeTwoPattern(w, cellInfo) ==
    LET row == cellInfo.row
        col == cellInfo.col
        pokeBoth(c) == 
             With([p1 \in {initiatePoke(w, row, c, URIGHT)} |->
             orRet(p1.ret, initiatePoke(p1, row + 1, col, LLEFT))])
    IN
    IF row + 1 < w.rows /\ col + 1 < w.cols /\ w.cells[<<row + 1, col + 1>>] = 3
    THEN IF w.cells[<<row, col + 1>>] = 2 /\ w.cells[<<row + 1, col>>] = 2
         THEN pokeBoth(col + 1)
         ELSE return(w, FALSE)
    ELSE IF row + 1 < w.rows /\ col - 1 >= 0 /\ w.cells[<<row + 1, col - 1>>] = 3
    THEN IF w.cells[<<row, col - 1>>] = 2 /\ w.cells[<<row + 1, col>>] = 2
         THEN pokeBoth(col - 1)
         ELSE return(w, FALSE)
    ELSE return(w, FALSE)

check3CellRectanglePattern(w, cellInfo) ==
    LET row == cellInfo.row
        col == cellInfo.col
    IN
    With([isTop3Cell \in {isAdjCellReqNumEqualTo(w, row, col, TOP, 3)} |->
    With([isRight3Cell \in {isAdjCellReqNumEqualTo(w, row, col, RIGHT, 3)} |->
    With([isBot3Cell \in {isAdjCellReqNumEqualTo(w, row, col, BOT, 3)} |->
    With([isLeft3Cell \in {isAdjCellReqNumEqualTo(w, row, col, LEFT, 3)} |->
    LET allActive(corner) == w.borders[corner[1]] = ACTIVE /\ w.borders[corner[2]] = ACTIVE
        blank(bdrIdx) == return(setBorder(w, bdrIdx, BLANK), TRUE)
    IN
    IF w.exc # NoException THEN w
    ELSE IF cellInfo.reqNum # None THEN return(w, FALSE)
    ELSE IF ~(cellInfo.bdrActiveCount = 2 /\ cellInfo.bdrUnsetCount = 2)
    THEN return(w, FALSE)
    ELSE IF allActive(cellInfo.cornerBdrs[ULEFT + 1])
    THEN IF isBot3Cell THEN blank(cellInfo.rightIdx)
         ELSE IF isRight3Cell THEN blank(cellInfo.botIdx)
         ELSE return(w, FALSE)
    ELSE IF allActive(cellInfo.cornerBdrs[URIGHT + 1])
    THEN IF isBot3Cell THEN blank(cellInfo.leftIdx)
         ELSE IF isLeft3Cell THEN blank(cellInfo.botIdx)
         ELSE return(w, FALSE)
    ELSE IF allActive(cellInfo.cornerBdrs[LRIGHT + 1])
    THEN IF isLeft3Cell THEN blank(cellInfo.topIdx)
         ELSE IF isTop3Cell THEN blank(cellInfo.leftIdx)
         ELSE return(w, FALSE)
    ELSE IF allActive(cellInfo.cornerBdrs[LLEFT + 1])
    THEN IF isRight3Cell THEN blank(cellInfo.topIdx)
         ELSE IF isTop3Cell THEN blank(cellInfo.rightIdx)
         ELSE return(w, FALSE)
    ELSE return(w, FALSE)])])])])

\* The pokes of checkOuterCellPoking, in order: <<condition, row, col, dxn>>.
RECURSIVE pokeWhere(_, _, _)
pokeWhere(w, pokes, found) ==
    IF pokes = <<>> THEN return(w, found)
    ELSE LET p == Head(pokes)
         IN
         IF p[1]
         THEN With([w1 \in {handleCellPoke(w, p[2], p[3], p[4])} |->
              pokeWhere(w1, Tail(pokes), found \/ w1.ret)])
         ELSE pokeWhere(w, Tail(pokes), found)

checkOuterCellPoking(w, cellInfo) ==
    LET row == cellInfo.row
        col == cellInfo.col
        top == row = 0 /\ cellInfo.topBdr = ACTIVE
        left == col = 0 /\ cellInfo.leftBdr = ACTIVE
        right == col = w.cols - 1 /\ cellInfo.rightBdr = ACTIVE
        bot == row = w.rows - 1 /\ cellInfo.botBdr = ACTIVE
    IN
    IF w.exc # NoException THEN w
    ELSE IF cellInfo.bdrActiveCount = 0 THEN return(w, FALSE)
    ELSE pokeWhere(w, <<
             <<top /\ col > 0, row, col - 1, URIGHT>>,
             <<top /\ col < w.cols - 1, row, col + 1, ULEFT>>,
             <<left /\ row > 0, row - 1, col, LLEFT>>,
             <<left /\ row < w.rows - 1, row + 1, col, ULEFT>>,
             <<right /\ row > 0, row - 1, col, LRIGHT>>,
             <<right /\ row < w.rows - 1, row + 1, col, URIGHT>>,
             <<bot /\ col > 0, row, col - 1, LRIGHT>>,
             <<bot /\ col < w.cols - 1, row, col + 1, LLEFT>> >>, FALSE)

\* for smoothDir in smoothDirs: found |= handleSmoothCorner(cellInfo, smoothDir)
smoothBoth(w, cellInfo, smoothDirs) ==
    With([s1 \in {handleSmoothCorner(w, cellInfo, smoothDirs[1])} |->
    orRet(s1.ret, handleSmoothCorner(s1, cellInfo, smoothDirs[2]))])

checkCellForContinuousUnsetBorders(w, cellInfo) ==
    With([contUnsetBdrs \in {getContinuousUnsetBordersOfCell(w, cellInfo)} |->
    LET RECURSIVE flat(_)
        flat(bdrSets) == IF bdrSets = <<>> THEN <<>> ELSE Head(bdrSets) \o flat(Tail(bdrSets))
        run == contUnsetBdrs[1]
        notInRun(bdrIdx) == ~InSeq(bdrIdx, run)
        topBdr == cellInfo.bdrIndices[1]
        rightBdr == cellInfo.bdrIndices[2]
        botBdr == cellInfo.bdrIndices[3]
        leftBdr == cellInfo.bdrIndices[4]
    IN
    IF w.exc # NoException THEN w
    ELSE IF cellInfo.bdrUnsetCount < 2 THEN return(w, FALSE)
    ELSE IF cellInfo.reqNum = None THEN return(w, FALSE)
    ELSE IF Len(contUnsetBdrs) = 0 THEN return(w, FALSE)
    ELSE IF cellInfo.reqNum = 1
    THEN return(setEach(w, flat(contUnsetBdrs), BLANK), TRUE)
    ELSE IF cellInfo.reqNum = 3
    THEN return(setEach(w, flat(contUnsetBdrs), ACTIVE), TRUE)
    ELSE IF cellInfo.reqNum = 2
    THEN IF Len(run) # 2 THEN raise(w, InvalidBoardException)
         ELSE IF cellInfo.bdrBlankCount > 0
         THEN With([activate \in {setEach(w, run, ACTIVE)} |->
              orRet(activate.ret,
                    setEach(activate, SelectSeq(cellInfo.bdrIndices, notInRun), BLANK))])
         ELSE IF InSeq(topBdr, run) /\ InSeq(leftBdr, run)
         THEN smoothBoth(w, cellInfo, <<ULEFT, LRIGHT>>)
         ELSE IF InSeq(topBdr, run) /\ InSeq(rightBdr, run)
         THEN smoothBoth(w, cellInfo, <<URIGHT, LLEFT>>)
         ELSE IF InSeq(botBdr, run) /\ InSeq(rightBdr, run)
         THEN smoothBoth(w, cellInfo, <<ULEFT, LRIGHT>>)
         ELSE IF InSeq(botBdr, run) /\ InSeq(leftBdr, run)
         THEN smoothBoth(w, cellInfo, <<URIGHT, LLEFT>>)
         ELSE raise(w, UnboundLocalError)
    ELSE return(w, FALSE)])

handle2CellDiagonallyOppositeActiveArms(w, row, col) ==
    With([arms \in {getArmsOfCell(w, row, col)} |->
    LET blankPair(v, arms1, arms2) == 
             IF getStatusCount(v, arms1)[2] = 1 /\ getStatusCount(v, arms2)[2] = 1
             THEN With([unsetArms \in {unsetOf(v, arms1 \o arms2)} |->
                  return(setEach(v, unsetArms, BLANK), Len(unsetArms) > 0)])
             ELSE return(v, FALSE)
    IN
    With([w1 \in {blankPair(w, arms[1], arms[3])} |->
    IF w.exc # NoException THEN w
    ELSE IF w.cells[<<row, col>>] # 2 THEN return(w, FALSE)
    ELSE orRet(w1.ret, blankPair(w1, arms[2], arms[4]))])])

(***************************************************************************)
(* solver/solver.py: processCell, processBorder, solveObvious              *)
(***************************************************************************)
\* A 3-cell with an ACTIVE arm at a corner is poked there.
RECURSIVE pokeActiveArms(_, _, _, _, _)
pokeActiveArms(w, row, col, i, found) ==
    IF i > 4 THEN return(w, found)
    ELSE With([armsStatus \in {getArmsStatus(w, row, col, DiagonalDirection[i])} |->
         IF \E k \in DOMAIN armsStatus : armsStatus[k] = ACTIVE
         THEN With([w1 \in {handleCellPoke(w, row, col, DiagonalDirection[i])} |->
              pokeActiveArms(w1, row, col, i + 1, found \/ w1.ret)])
         ELSE pokeActiveArms(w, row, col, i + 1, found)])

\* A 3-cell poked along a chain of 2-cells: the far corner becomes ACTIVE.
RECURSIVE indirectPoke3(_, _, _, _, _)
indirectPoke3(w, row, col, i, found) ==
    IF w.exc # NoException \/ i > 4 THEN return(w, found)
    ELSE LET dxn == DiagonalDirection[i]
         IN
         With([stats \in {getCornerStatus(w, row, col, dxnOpposite(dxn))} |->
         With([poked \in {isCellIndirectPokedByPropagation(w,
                              getCellIdxAtDiagCorner(w, row, col, dxn), dxn)} |->
         With([bdrs \in {getCornerBorderIndices(w, row, col, dxnOpposite(dxn))} |->
         IF stats[1] = UNSET /\ stats[2] = UNSET
         THEN IF poked.ret
              THEN indirectPoke3(setBorder(setBorder(poked, bdrs[1], ACTIVE), bdrs[2], ACTIVE),
                                 row, col, i + 1, TRUE)
              ELSE indirectPoke3(poked, row, col, i + 1, found)
         ELSE indirectPoke3(w, row, col, i + 1, found)])])])

\* A 2-cell with one BLANK border, poked along a chain: ret TRUE at the first move.
RECURSIVE indirectPoke2(_, _, _, _)
indirectPoke2(w, row, col, i) ==
    IF w.exc # NoException \/ i > 4 THEN return(w, FALSE)
    ELSE LET dxn == DiagonalDirection[i]
         IN
         With([stats \in {getCornerStatus(w, row, col, dxnOpposite(dxn))} |->
         With([poked \in {isCellIndirectPokedByPropagation(w,
                              getCellIdxAtDiagCorner(w, row, col, dxn), dxn)} |->
         With([w1 \in {handleCellPoke(poked, row, col, dxn)} |->
         IF (stats[1] = UNSET /\ stats[2] = BLANK) \/ (stats[1] = BLANK /\ stats[2] = UNSET)
         THEN IF poked.ret
              THEN IF w1.ret THEN w1 ELSE indirectPoke2(w1, row, col, i + 1)
              ELSE indirectPoke2(poked, row, col, i + 1)
         ELSE indirectPoke2(w, row, col, i + 1)])])])

\* for pokeDxn in pokeDirs: found |= initiatePoke(row, col, pokeDxn)
RECURSIVE initiatePokes(_, _, _, _, _)
initiatePokes(w, row, col, pokeDirs, found) ==
    IF pokeDirs = <<>> THEN return(w, found)
    ELSE With([w1 \in {initiatePoke(w, row, col, Head(pokeDirs))} |->
         initiatePokes(w1, row, col, Tail(pokeDirs), found \/ w1.ret)])

processCell(w, row, col) ==
    With([cellInfo \in {CellInfo(w, row, col)} |->
    LET reqNum == w.cells[<<row, col>>]
    IN
    With([fill \in {fillOrRemoveRemainingUnsetBorders(w, cellInfo)} |->
    With([arms3 \in {pokeActiveArms(fill, row, col, 1, FALSE)} |->
    With([byReq \in {CASE reqNum = 3 -> orRet(arms3.ret, checkThreeTwoThreeTwoPattern(arms3, cellInfo))
                       [] reqNum = 2 -> handle2CellDiagonallyOppositeActiveArms(fill, row, col)
                       [] reqNum = None -> return(w, FALSE)
                       [] OTHER -> return(fill, FALSE)} |->
    With([rect \in {check3CellRectanglePattern(byReq, cellInfo)} |->
    With([outer \in {checkOuterCellPoking(rect, cellInfo)} |->
    With([ind3 \in {IF reqNum = 3 /\ cellInfo.bdrUnsetCount > 0
                    THEN indirectPoke3(outer, row, col, 1, FALSE)
                    ELSE return(outer, FALSE)} |->
    With([ind2 \in {IF ~ind3.ret /\ reqNum = 2
                       /\ cellInfo.bdrBlankCount = 1 /\ cellInfo.bdrUnsetCount > 0
                    THEN indirectPoke2(ind3, row, col, 1)
                    ELSE return(ind3, FALSE)} |->
    With([pokeDirs \in {getDirectionsCellIsPokingAt(ind2, row, col)} |->
    With([pokes \in {IF ind3.ret THEN ind2
                     ELSE initiatePokes(pokeDirs, row, col,
                              IF pokeDirs.exc = NoException THEN pokeDirs.ret ELSE <<>>, FALSE)} |->
    LET found == ind3.ret \/ pokes.ret
    IN
    IF w.exc # NoException THEN w
    ELSE IF cellInfo.bdrActiveCount = 4 THEN raise(w, InvalidBoardException)
    ELSE IF reqNum # None /\ cellInfo.bdrActiveCount > reqNum
    THEN raise(w, InvalidBoardException)
    ELSE IF reqNum # None /\ cellInfo.bdrUnsetCount + cellInfo.bdrActiveCount < reqNum
    THEN raise(w, InvalidBoardException)
    ELSE IF reqNum # None /\ fill.ret THEN fill
    ELSE IF byReq.exc # NoException \/ byReq.ret THEN byReq
    ELSE IF rect.exc # NoException \/ rect.ret THEN rect
    ELSE IF outer.exc # NoException \/ outer.ret THEN outer
    ELSE IF ind2.exc # NoException THEN ind2
    ELSE IF ind2.ret THEN ind2
    ELSE IF pokes.exc # NoException THEN pokes
    ELSE IF found THEN return(pokes, TRUE)
    ELSE checkCellForContinuousUnsetBorders(pokes, cellInfo)])])])])])])])])])])

processBorder(w, borderIdx) ==
    With([connBdrList \in {getConnectedBordersList(w, borderIdx)} |->
    With([connBdrTuple \in {getConnectedBorders(w, borderIdx)} |->
    With([count1 \in {getStatusCount(w, connBdrTuple[1])} |->
    With([count2 \in {getStatusCount(w, connBdrTuple[2])} |->
    IF w.exc # NoException THEN w
    ELSE IF w.borders[borderIdx] # UNSET THEN return(w, FALSE)
    ELSE IF \E i \in DOMAIN connBdrList :
                /\ isContinuous(w, borderIdx, connBdrList[i])
                /\ w.borders[connBdrList[i]] = ACTIVE
    THEN setBorder(w, borderIdx, ACTIVE)
    ELSE IF count1[2] > 1 \/ count2[2] > 1
    THEN setBorder(w, borderIdx, BLANK)
    ELSE IF count1[3] = Len(connBdrTuple[1]) \/ count2[3] = Len(connBdrTuple[2])
    THEN setBorder(w, borderIdx, BLANK)
    ELSE return(w, FALSE)])])])])

\* Solver.initializePrioritizedCellList: 1- and 3-cells, then 2-cells, then the rest.
prioCellsOf(rows, cols, cells) ==
    LET all == [k \in 1..(rows * cols) |-> <<(k - 1) \div cols, (k - 1) % cols>>]
        high(c) == cells[c] = 1 \/ cells[c] = 3
        med(c) == cells[c] = 2
        low(c) == cells[c] = None \/ cells[c] = 0
    IN
    SelectSeq(all, high) \o SelectSeq(all, med) \o SelectSeq(all, low)

\* The borders of one cell in solveObvious, each processed once per pass.
RECURSIVE processBordersOf(_, _, _, _, _, _)
processBordersOf(w, row, col, i, processedBorders, found) ==
    IF i > 4 THEN [w |-> return(w, found), processedBorders |-> processedBorders]
    ELSE With([borderIdx \in {getBorderIdx(w, row, col, CardinalDirection[i])} |->
         IF borderIdx \in processedBorders
         THEN processBordersOf(w, row, col, i + 1, processedBorders, found)
         ELSE With([w1 \in {processBorder(w, borderIdx)} |->
              processBordersOf(w1, row, col, i + 1,
                  processedBorders \cup {borderIdx}, found \/ w1.ret)])])

RECURSIVE solveObviousFrom(_, _, _, _)
solveObviousFrom(w, prioCells, processedBorders, foundMove) ==
    IF w.exc # NoException THEN w
    ELSE IF prioCells = <<>> THEN return(w, foundMove)
    ELSE LET cellIdx == Head(prioCells)
         IN
         With([w1 \in {processCell(w, cellIdx[1], cellIdx[2])} |->
         With([b \in {processBordersOf(w1, cellIdx[1], cellIdx[2], 1, processedBorders, w1.ret)} |->
         solveObviousFrom(b.w, Tail(prioCells), b.processedBorders,
                          foundMove \/ b.w.ret)])])

solveObvious(w) ==
    solveObviousFrom(w, prioCellsOf(w.rows, w.cols, w.cells), {}, FALSE)

(***************************************************************************)
(* solver/solver.py: cell groups                                           *)
(***************************************************************************)
\* _process of updateCellGroups: s holds the board record and processedCells.
RECURSIVE cellGroupProcess(_, _, _, _)
RECURSIVE cellGroupProcessAdj(_, _, _, _, _)

cellGroupProcess(s, row, col, groupId) ==
    IF <<row, col>> \in s.processedCells THEN s
    ELSE IF ~isValidCellIdx(s.w, row, col) THEN s
    ELSE cellGroupProcessAdj(
             [w |-> [s.w EXCEPT !.cellGroups[<<row, col>>] = groupId],
              processedCells |-> s.processedCells \cup {<<row, col>>}],
             row, col, groupId, 1)

cellGroupProcessAdj(s, row, col, groupId, i) ==
    IF i > 4 THEN s
    ELSE LET dxn == CardinalDirection[i]
         IN
         With([bdrStat \in {getBorderStatus(s.w, row, col, dxn)} |->
         With([adj \in {getCellIdxOfAdjCell(s.w, row, col, dxn)} |->
         With([s1 \in {IF adj[1] # None /\ adj[2] # None
                       THEN IF bdrStat = BLANK
                            THEN cellGroupProcess(s, adj[1], adj[2], groupId)
                            ELSE IF bdrStat = ACTIVE
                            THEN cellGroupProcess(s, adj[1], adj[2], IF groupId = 0 THEN 1 ELSE 0)
                            ELSE s
                       ELSE s} |->
         cellGroupProcessAdj(s1, row, col, groupId, i + 1)])])])

\* A cell on the rim is seeded through its outer border: BLANK is group 0, ACTIVE is 1.
cellGroupSeed(s, row, col, dxn) ==
    IF getBorderStatus(s.w, row, col, dxn) = BLANK THEN cellGroupProcess(s, row, col, 0)
    ELSE IF getBorderStatus(s.w, row, col, dxn) = ACTIVE THEN cellGroupProcess(s, row, col, 1)
    ELSE s

RECURSIVE cellGroupSeedRows(_, _)
cellGroupSeedRows(s, row) ==
    IF row >= s.w.rows THEN s
    ELSE cellGroupSeedRows(
             cellGroupSeed(cellGroupSeed(s, row, 0, LEFT), row, s.w.cols - 1, RIGHT),
             row + 1)

RECURSIVE cellGroupSeedCols(_, _)
cellGroupSeedCols(s, col) ==
    IF col >= s.w.cols THEN s
    ELSE cellGroupSeedCols(
             cellGroupSeed(cellGroupSeed(s, 0, col, TOP), s.w.rows - 1, col, BOT),
             col + 1)

\* An updateCellGroups that leaves a cell the label it has.
updateCellGroupsKept(w) ==
    IF w.exc # NoException THEN w
    ELSE With([u \in {cellGroupSeedCols(cellGroupSeedRows([w |-> w, processedCells |-> {}], 0), 0).w} |->
         [u EXCEPT !.cellGroups = [c \in DOMAIN w.cellGroups |->
                                      IF w.cellGroups[c] # None THEN w.cellGroups[c]
                                      ELSE u.cellGroups[c]]]])

updateCellGroups(w) ==
    IF w.exc # NoException THEN w
    ELSE cellGroupSeedCols(cellGroupSeedRows([w |-> w, processedCells |-> {}], 0), 0).w

\* The clue rules of a cell, doing nothing.
cluesSkipped(w, cellInfo, grp) == return(w, FALSE)

\* The clue rules of one cell in checkCellGroupClues; ret is _found.
cellGroupClues(w, cellInfo, grp) ==
    LET grpTop == grp[1]
        grpRight == grp[2]
        grpBot == grp[3]
        grpLeft == grp[4]
        topBot(v, status) == 
             With([a \in {setBorder(v, cellInfo.topIdx, status)} |->
             orRet(a.ret, setBorder(a, cellInfo.botIdx, status))])
        leftRight(v, status) == 
             With([a \in {setBorder(v, cellInfo.leftIdx, status)} |->
             orRet(a.ret, setBorder(a, cellInfo.rightIdx, status))])
        \* 1-cell
    IN
    With([one1 \in {IF grpTop = grpBot /\ grpTop # None /\ grpBot # None
                    THEN topBot(w, BLANK)
                    ELSE IF grpTop # grpBot /\ grpTop # None /\ grpBot # None
                    THEN leftRight(w, BLANK)
                    ELSE return(w, FALSE)} |->
    With([one2 \in {IF grpLeft = grpRight /\ grpLeft # None /\ grpRight # None
                    THEN orRet(one1.ret, leftRight(one1, BLANK))
                    ELSE IF grpLeft # grpRight /\ grpLeft # None /\ grpRight # None
                    THEN orRet(one1.ret, topBot(one1, BLANK))
                    ELSE one1} |->
    \* 2-cell
    With([two \in {IF (grpTop = grpBot /\ grpTop # None) \/ (grpLeft = grpRight /\ grpLeft # None)
                   THEN initiatePokes(w, cellInfo.row, cellInfo.col, DiagonalDirection, FALSE)
                   ELSE return(w, FALSE)} |->
    \* 3-cell
    With([three1 \in {IF grpTop = grpBot /\ grpTop # None
                      THEN topBot(w, ACTIVE) ELSE return(w, FALSE)} |->
    With([three2 \in {IF grpLeft = grpRight /\ grpLeft # None
                      THEN orRet(three1.ret, leftRight(three1, ACTIVE)) ELSE three1} |->
    With([three3 \in {IF grpTop # None /\ grpBot # None /\ grpTop # grpBot
                      THEN orRet(three2.ret, leftRight(three2, ACTIVE)) ELSE three2} |->
    With([three4 \in {IF grpLeft # None /\ grpRight # None /\ grpLeft # grpRight
                      THEN orRet(three3.ret, topBot(three3, ACTIVE)) ELSE three3} |->
    CASE cellInfo.reqNum = 1 -> one2
      [] cellInfo.reqNum = 2 -> two
      [] cellInfo.reqNum = 3 -> three4
      [] OTHER -> return(w, FALSE)])])])])])])])

\* The cell's group is known: each UNSET border with a known group across is set.
RECURSIVE setByOwnGroup(_, _, _, _, _, _, _)
setByOwnGroup(w, borderIndices, borderStats, adjCellGroups, grpOwn, i, found) ==
    IF i > 4 THEN return(w, found)
    ELSE IF borderStats[i] = UNSET /\ adjCellGroups[i] # None
    THEN setByOwnGroup(
             setBorder(w, borderIndices[i], IF grpOwn = adjCellGroups[i] THEN BLANK ELSE ACTIVE),
             borderIndices, borderStats, adjCellGroups, grpOwn, i + 1, TRUE)
    ELSE setByOwnGroup(w, borderIndices, borderStats, adjCellGroups, grpOwn, i + 1, found)

\* The cell's group is unknown: a corner between two known groups is smooth or poked.
RECURSIVE cornersByGroups(_, _, _, _, _, _)
cornersByGroups(w, cellInfo, cornerStats, cornerGrps, i, found) ==
    IF i > 4 THEN return(w, found)
    ELSE IF cornerStats[i][1] = UNSET /\ cornerStats[i][2] = UNSET
            /\ cornerGrps[i][1] # None /\ cornerGrps[i][2] # None
    THEN With([w1 \in {IF cornerGrps[i][1] = cornerGrps[i][2]
                       THEN handleSmoothCorner(w, cellInfo, DiagonalDirection[i])
                       ELSE initiatePoke(w, cellInfo.row, cellInfo.col, DiagonalDirection[i])} |->
         cornersByGroups(w1, cellInfo, cornerStats, cornerGrps, i + 1, found \/ w1.ret)])
    ELSE cornersByGroups(w, cellInfo, cornerStats, cornerGrps, i + 1, found)

RECURSIVE checkCellGroupCluesFrom(_, _, _)
checkCellGroupCluesFrom(w, prioCells, foundMove) ==
    IF w.exc # NoException THEN w
    ELSE IF prioCells = <<>> THEN return(w, foundMove)
    ELSE
    LET row == Head(prioCells)[1]
        col == Head(prioCells)[2]
    IN
    With([cellInfo \in {CellInfo(w, row, col)} |->
    With([borderIndices \in {getCellBorders(w, row, col)} |->
    With([countUnset \in {getStatusCount(w, borderIndices)[1]} |->
    LET borderStats == [i \in 1..4 |-> w.borders[borderIndices[i]]]
        grpOwn == w.cellGroups[<<row, col>>]
    IN
    With([grp \in {getAdjCellGroups(w, row, col)} |->
    With([clues \in {cellGroupClues(w, cellInfo, grp)} |->
    With([own \in {setByOwnGroup(clues, borderIndices, borderStats, grp, grpOwn, 1, foundMove)} |->
    With([cornerStats \in {<< <<borderStats[1], borderStats[4]>>, <<borderStats[1], borderStats[2]>>,
                              <<borderStats[3], borderStats[2]>>, <<borderStats[3], borderStats[4]>> >>} |->
    With([cornerGrps \in {<< <<grp[1], grp[4]>>, <<grp[1], grp[2]>>,
                             <<grp[3], grp[2]>>, <<grp[3], grp[4]>> >>} |->
    With([corners \in {cornersByGroups(clues, cellInfo, cornerStats, cornerGrps, 1, foundMove)} |->
    IF countUnset = 0
    THEN checkCellGroupCluesFrom(w, Tail(prioCells), foundMove)
    ELSE IF clues.exc # NoException THEN clues
    ELSE IF clues.ret
    THEN checkCellGroupCluesFrom(clues, Tail(prioCells), TRUE)
    ELSE IF grpOwn # None
    THEN checkCellGroupCluesFrom(own, Tail(prioCells), own.ret)
    ELSE checkCellGroupCluesFrom(corners, Tail(prioCells), corners.ret)])])])])])])])])])

checkCellGroupClues(w) ==
    checkCellGroupCluesFrom(w, prioCellsOf(w.rows, w.cols, w.cells), FALSE)

(***************************************************************************)
(* solver/solver.py: removeLoopMakingMove                                  *)
(***************************************************************************)
\* The ACTIVE borders reachable from a set of them through shared vertices.
RECURSIVE connectedActive(_, _, _)
connectedActive(w, activeBorders, group) ==
    With([next \in {group \cup {b \in activeBorders :
                        \E g \in group : InSeq(b, getConnectedBordersList(w, g))}} |->
    IF next = group THEN group ELSE connectedActive(w, activeBorders, next)])

\* borderGroup: ACTIVE borders joined through vertices share a group, named
\* here by the group's least border (the code numbers the groups as it meets them).
borderGroupOf(w, activeBorders, idx) ==
    With([group \in {connectedActive(w, activeBorders, {idx})} |->
    CHOOSE g \in group : \A h \in group : g <= h])

\* The group of the first ACTIVE border in a vertex's list; None if there is none.
groupAtVertex(w, activeBorders, connBdrs) ==
    LET isActive(b) == b \in activeBorders
        active == SelectSeq(connBdrs, isActive)
    IN
    IF active = <<>> THEN None ELSE borderGroupOf(w, activeBorders, active[1])

\* The UNSET borders whose two ends both touch ACTIVE borders, of any groups.
loopMakingAnyGroups(w) ==
    LET activeBorders == {b \in DOMAIN w.borders : w.borders[b] = ACTIVE}
        unsetBorders == {b \in DOMAIN w.borders : w.borders[b] = UNSET}
    IN
    {bdrIdx \in unsetBorders :
        With([conn \in {getConnectedBorders(w, bdrIdx)} |->
        With([group1 \in {groupAtVertex(w, activeBorders, conn[1])} |->
        With([group2 \in {groupAtVertex(w, activeBorders, conn[2])} |->
        group1 # None /\ group2 # None])])])}

\* The UNSET borders whose two ends touch the same group of ACTIVE borders.
loopMakingBorders(w) ==
    LET activeBorders == {b \in DOMAIN w.borders : w.borders[b] = ACTIVE}
        unsetBorders == {b \in DOMAIN w.borders : w.borders[b] = UNSET}
    IN
    {bdrIdx \in unsetBorders :
        With([conn \in {getConnectedBorders(w, bdrIdx)} |->
        With([group1 \in {groupAtVertex(w, activeBorders, conn[1])} |->
        With([group2 \in {groupAtVertex(w, activeBorders, conn[2])} |->
        group1 # None /\ group2 # None /\ group1 = group2])])])}

\* The first such border the walk over the set unsetBorders meets is blanked;
\* bdrIdx is that border, None when there is none.
removeLoopMakingMove(w, bdrIdx) ==
    IF w.exc # NoException THEN w
    ELSE IF bdrIdx = None THEN return(w, FALSE)
    ELSE setBorder(w, bdrIdx, BLANK)

(***************************************************************************)
(* solver/solver.py: corner entries (real board only)                      *)
(***************************************************************************)
\* setCornerEntry of updateCornerEntries; cellIdx <<>> is None.
setCornerEntry(w, cellIdx, dxn, newVal) ==
    IF w.exc # NoException THEN w
    ELSE IF cellIdx = <<>> THEN return(w, FALSE)
    ELSE IF w.cornerEntry[cellIdx][dxn + 1] = UNKNOWN
    THEN [w EXCEPT !.cornerEntry[cellIdx][dxn + 1] = newVal, !.ret = TRUE]
    ELSE IF w.cornerEntry[cellIdx][dxn + 1] # newVal
    THEN raise(w, InvalidBoardException)
    ELSE return(w, FALSE)

\* One corner of one cell in a sweep of updateCornerEntries; ret is updateFlag.
cornerEntryCorner(w, row, col, dxn, updateFlag) ==
    With([arms \in {getArms(w, row, col, dxn)} |->
    With([count \in {getStatusCount(w, arms)} |->
    LET byArms == IF count[2] % 2 = 0 THEN SMOOTH ELSE POKE
    IN
    With([diag \in {getCellIdxAtDiagCorner(w, row, col, dxn)} |->
    With([a1 \in {setCornerEntry(w, <<row, col>>, dxn, byArms)} |->
    With([a2 \in {orRet(a1.ret, setCornerEntry(a1, diag, dxnOpposite(dxn), byArms))} |->
    With([w1 \in {IF count[1] = 0 THEN orRet(updateFlag, a2) ELSE return(w, updateFlag)} |->
    LET entry == w1.cornerEntry[<<row, col>>][dxn + 1]
    IN
    IF w1.exc # NoException THEN w1
    ELSE IF entry # UNKNOWN
    THEN orRet(w1.ret, setCornerEntry(w1, diag, dxnOpposite(dxn), entry))
    ELSE w1])])])])])])

\* The four corners of a cell, then its single UNKNOWN corner by parity of pokes.
RECURSIVE cornerEntryCell(_, _, _, _, _, _, _, _)
cornerEntryCell(w, row, col, i, updateFlag, countPoke, countUnknown, unknownDxn) ==
    IF w.exc # NoException THEN w
    ELSE IF i > 4
    THEN IF countUnknown = 1
         THEN orRet(updateFlag,
                    setCornerEntry(w, <<row, col>>, unknownDxn,
                                   IF countPoke % 2 = 0 THEN SMOOTH ELSE POKE))
         ELSE return(w, updateFlag)
    ELSE LET dxn == DiagonalDirection[i]
         IN
         With([w1 \in {cornerEntryCorner(w, row, col, dxn, updateFlag)} |->
         LET entry == w1.cornerEntry[<<row, col>>][dxn + 1]
         IN
         cornerEntryCell(w1, row, col, i + 1, w1.ret,
             IF entry = POKE THEN countPoke + 1 ELSE countPoke,
             IF entry = UNKNOWN THEN countUnknown + 1 ELSE countUnknown,
             IF entry = UNKNOWN THEN dxn ELSE unknownDxn)])

RECURSIVE cornerEntrySweep(_, _, _)
cornerEntrySweep(w, k, updateFlag) ==
    IF w.exc # NoException THEN w
    ELSE IF k >= w.rows * w.cols THEN return(w, updateFlag)
    ELSE With([w1 \in {cornerEntryCell(w, k \div w.cols, k % w.cols, 1, updateFlag, 0, 0, None)} |->
         cornerEntrySweep(w1, k + 1, w1.ret)])

RECURSIVE updateCornerEntries(_)
updateCornerEntries(w) ==
    With([w1 \in {cornerEntrySweep(w, 0, FALSE)} |->
    IF w1.exc # NoException THEN w1
    ELSE IF w1.ret THEN updateCornerEntries(w1)
    ELSE w1])

\* The corners of one cell in solveUsingCornerEntryInfo.
RECURSIVE useCornerEntries(_, _, _, _)
useCornerEntries(w, cellInfo, i, found) ==
    IF w.exc # NoException THEN w
    ELSE IF i > 4 THEN return(w, found)
    ELSE LET dxn == DiagonalDirection[i]
             entry == w.cornerEntry[<<cellInfo.row, cellInfo.col>>][dxn + 1]
         IN
         With([w1 \in {IF entry = POKE THEN initiatePoke(w, cellInfo.row, cellInfo.col, dxn)
                       ELSE IF entry = SMOOTH THEN handleSmoothCorner(w, cellInfo, dxn)
                       ELSE return(w, FALSE)} |->
         useCornerEntries(w1, cellInfo, i + 1, found \/ w1.ret)])

RECURSIVE solveUsingCornerEntryInfoFrom(_, _, _)
solveUsingCornerEntryInfoFrom(w, k, foundMove) ==
    IF w.exc # NoException THEN w
    ELSE IF k >= w.rows * w.cols THEN return(w, foundMove)
    ELSE With([cellInfo \in {CellInfo(w, k \div w.cols, k % w.cols)} |->
         With([w1 \in {IF cellInfo.bdrUnsetCount > 0
                       THEN useCornerEntries(w, cellInfo, 1, foundMove)
                       ELSE return(w, foundMove)} |->
         solveUsingCornerEntryInfoFrom(w1, k + 1, w1.ret)])])

solveUsingCornerEntryInfo(w) ==
    solveUsingCornerEntryInfoFrom(updateCornerEntries(w), 0, FALSE)

(***************************************************************************)
(* solver/initial.py: the first pass over the clues                        *)
(***************************************************************************)
\* _setBorder of initial.py: a border already set the other way is left alone
\* and nothing is raised or returned; refused only records that this happened.
_setBorder(w, borderIdx, newStatus) ==
    IF w.borders[borderIdx] = newStatus THEN w
    ELSE IF w.borders[borderIdx] = UNSET THEN [w EXCEPT !.borders[borderIdx] = newStatus]
    ELSE [w EXCEPT !.refused = TRUE]

RECURSIVE _setBorders(_, _, _)
_setBorders(w, bdrs, newStatus) ==
    IF bdrs = <<>> THEN w
    ELSE _setBorders(_setBorder(w, Head(bdrs), newStatus), Tail(bdrs), newStatus)

\* board.reqCells: the cells that carry a number.
reqCells(w) == {c \in DOMAIN w.cells : w.cells[c] # None}

\* _setAdj3CellBorders: the 3-cell at other3CellIdx lies across the dxn border.
_setAdj3CellBorders(w, row, col, dxn, other3CellIdx) ==
    With([cellBorders \in {getCellBorders(w, row, col)} |->
    With([bdrFilter \in {cellBorders \o getCellBorders(w, other3CellIdx[1], other3CellIdx[2])} |->
    LET notFiltered(bdr) == ~InSeq(bdr, bdrFilter)
    IN
    With([activeBorders \in {IF dxn \in {TOP, BOT}
                             THEN <<cellBorders[1], cellBorders[3]>>
                             ELSE <<cellBorders[4], cellBorders[2]>>} |->
    With([conn \in {getConnectedBordersList(w, cellBorders[dxn + 1])} |->
    LET blankBorders == SelectSeq(conn, notFiltered)
    IN
    _setBorders(_setBorders(w, activeBorders, ACTIVE), blankBorders, BLANK)])])])])

_handleAdjacent3Cells(w, row, col) ==
    LET is3(cellIdx) == cellIdx \in reqCells(w) /\ w.cells[cellIdx] = 3
        adj(v, dxn, cellIdx) == 
             IF is3(cellIdx) THEN _setAdj3CellBorders(v, row, col, dxn, cellIdx) ELSE v
    IN
    adj(adj(adj(adj(w, TOP, <<row - 1, col>>),
                RIGHT, <<row, col + 1>>),
            BOT, <<row + 1, col>>),
        LEFT, <<row, col - 1>>)

RECURSIVE _hasDiagonal3Cell(_, _, _, _)
_hasDiagonal3Cell(w, row, col, dxn) ==
    IF <<row, col>> \notin reqCells(w) THEN FALSE
    ELSE IF w.cells[<<row, col>>] = 3 THEN TRUE
    ELSE IF w.cells[<<row, col>>] # 2 THEN FALSE
    ELSE With([nextCellIdx \in {getCellIdxAtDiagCorner(w, row, col, dxn)} |->
         IF nextCellIdx = <<>> THEN FALSE
         ELSE _hasDiagonal3Cell(w, nextCellIdx[1], nextCellIdx[2], dxn)])

\* _setCorner: the corner's two borders ACTIVE, its arms BLANK.
_setCorner(w, row, col, dxn) ==
    _setBorders(_setBorders(w, getCornerBorderIndices(w, row, col, dxn), ACTIVE),
                getArmsOfCell(w, row, col)[dxn + 1], BLANK)

_handleDiagonal3Cells(w, row, col) ==
    LET diag(v, r, c, dxn, corner) == 
             IF _hasDiagonal3Cell(v, r, c, dxn) THEN _setCorner(v, row, col, corner) ELSE v
    IN
    diag(diag(diag(diag(w, row - 1, col - 1, ULEFT, LRIGHT),
                   row - 1, col + 1, URIGHT, LLEFT),
              row + 1, col + 1, LRIGHT, ULEFT),
         row + 1, col - 1, LLEFT, URIGHT)

\* solveInit walks the set board.reqCells; order is the order of that walk.
RECURSIVE solveInit(_, _)
solveInit(w, order) ==
    IF order = <<>> THEN w
    ELSE LET row == Head(order)[1]
             col == Head(order)[2]
         IN
         With([w1 \in {IF w.cells[<<row, col>>] = 0
                       THEN _setBorders(w, getCellBorders(w, row, col), BLANK)
                       ELSE IF w.cells[<<row, col>>] = 3
                       THEN _handleDiagonal3Cells(_handleAdjacent3Cells(w, row, col), row, col)
                       ELSE w} |->
         solveInit(w1, Tail(order))])

(***************************************************************************)
(* board.py: construction, reset, clone                                    *)
(***************************************************************************)
\* The cells of a rows x cols grid, as <<row, col>>.
cellIndices(rows, cols) == (0 .. rows - 1) \X (0 .. cols - 1)

unknownCornerEntries(rows, cols) ==
    [c \in cellIndices(rows, cols) |-> <<UNKNOWN, UNKNOWN, UNKNOWN, UNKNOWN>>]

noCellGroups(rows, cols) == [c \in cellIndices(rows, cols) |-> None]

newBorders(rows, cols) == [idx \in 0 .. ((cols * 2 + 1) * rows + cols) - 1 |-> UNSET]

\* Board.__init__: borders is the address of the list of border statuses.
Board(rows, cols, cells, borders) ==
    [rows |-> rows, cols |-> cols, isClone |-> FALSE, cells |-> cells,
     borders |-> borders, cellGroups |-> noCellGroups(rows, cols), pokes |-> {},
     cornerEntries |-> unknownCornerEntries(rows, cols)]

\* int(cellDataString[idx]) if cellDataString[idx] != "." else None
toReqNum(ch) ==
    IF ch = "." THEN None
    ELSE IF ch = "0" THEN 0
    ELSE IF ch = "1" THEN 1
    ELSE IF ch = "2" THEN 2
    ELSE 3

\* The cells that the loop of Board.fromString reads from the string, row by row.
cellsFromString(rows, cols, cellDataString) ==
    [c \in cellIndices(rows, cols) |-> toReqNum(cellDataString[c[1] * cols + c[2] + 1])]

\* A Board.fromString that only turns away a string too short for the cells.
fromStringAtLeast(rows, cols, cellDataString) ==
    IF Len(cellDataString) < rows * cols
    THEN [exc |-> ValueError, ret |-> None]
    ELSE [exc |-> NoException,
          ret |-> Board(rows, cols, cellsFromString(rows, cols, cellDataString), 1)]

\* Board.fromString: the new Board (over the border list at address 1) in ret,
\* or the ValueError in exc and no Board.
fromString(rows, cols, cellDataString) ==
    IF rows <= 0 \/ cols <= 0
    THEN [exc |-> ValueError, ret |-> None]
    ELSE IF Len(cellDataString) # rows * cols
    THEN [exc |-> ValueError, ret |-> None]
    ELSE [exc |-> NoException,
          ret |-> Board(rows, cols, cellsFromString(rows, cols, cellDataString), 1)]

\* A Board.reset that leaves the cells in their groups.
resetKeepingGroups(b, h) ==
    [board |-> [b EXCEPT !.pokes = {},
                         !.cornerEntries = unknownCornerEntries(b.rows, b.cols)],
     heap |-> [h EXCEPT ![b.borders] = [idx \in DOMAIN h[b.borders] |-> UNSET]]]

\* Board.reset: the border list is cleared in place, the rest is rebuilt.
reset(b, h) ==
    [board |-> [b EXCEPT !.pokes = {},
                         !.cornerEntries = unknownCornerEntries(b.rows, b.cols),
                         !.cellGroups = noCellGroups(b.rows, b.cols)],
     heap |-> [h EXCEPT ![b.borders] = [idx \in DOMAIN h[b.borders] |-> UNSET]]]

\* The address of a list that no live board holds.
freshAddress(b) == CHOOSE a \in 1 .. 2 : a # b.borders

\* A Board.clone that hands the clone the board's own border list.
cloneShared(b, h) ==
    [board |-> [Board(b.rows, b.cols, b.cells, b.borders) EXCEPT
                    !.pokes = b.pokes, !.cornerEntries = b.cornerEntries, !.isClone = TRUE],
     heap |-> h]

\* Board.clone: a new board over a copy of the border list.
clone(b, h) ==
    LET bordersCopy == freshAddress(b)
        clonedBoard == Board(b.rows, b.cols, b.cells, bordersCopy)
    IN  [board |-> [clonedBoard EXCEPT !.pokes = b.pokes,
                                       !.cornerEntries = b.cornerEntries,
                                       !.isClone = TRUE],
         heap |-> [a \in DOMAIN h \cup {bordersCopy} |->
                      IF a = bordersCopy THEN h[b.borders] ELSE h[a]]]

\* Board.getBordersString: one digit per border.
digit(status) == IF status = UNSET THEN "0" ELSE IF status = ACTIVE THEN "1" ELSE "2"

getBordersString(borders) == [i \in 1 .. Cardinality(DOMAIN borders) |-> digit(borders[i - 1])]

(***************************************************************************)
(* solver/solver.py: getGuesses and the loop of _solve                     *)
(***************************************************************************)
\* The guesses of one border of one cell, in the order of the three loops.
RECURSIVE highPrioFrom(_, _, _)
highPrioFrom(w, k, highPrio) ==
    IF k >= w.rows * w.cols * 4 THEN highPrio
    ELSE LET row == (k \div 4) \div w.cols
             col == (k \div 4) % w.cols
             bdrIdx == getBorderIdx(w, row, col, CardinalDirection[(k % 4) + 1])
             reqNum == w.cells[<<row, col>>]
         IN  highPrioFrom(w, k + 1,
                 IF w.borders[bdrIdx] = UNSET /\ reqNum = 1
                 THEN Append(highPrio, <<bdrIdx, ACTIVE>>)
                 ELSE IF w.borders[bdrIdx] = UNSET /\ reqNum = 3
                 THEN Append(highPrio, <<bdrIdx, BLANK>>)
                 ELSE highPrio)

\* Every UNSET border of a cell goes to doneBorders, whatever the cell's number.
doneBordersOf(w) ==
    {bdrIdx \in DOMAIN w.borders : w.borders[bdrIdx] = UNSET /\
        \E c \in DOMAIN w.cells : InSeq(bdrIdx, getCellBorders(w, c[1], c[2]))}

RECURSIVE lowPrioFrom(_, _, _, _)
lowPrioFrom(w, bdrIdx, doneBorders, lowPrio) ==
    IF bdrIdx >= Cardinality(DOMAIN w.borders) THEN lowPrio
    ELSE lowPrioFrom(w, bdrIdx + 1, doneBorders,
             IF bdrIdx \notin doneBorders /\ w.borders[bdrIdx] = UNSET
             THEN Append(lowPrio, <<bdrIdx, ACTIVE>>)
             ELSE lowPrio)

\* getGuesses; ret is the list before either shuffle has been looked at:
\* len is its length, highPrio and lowPrio the guesses not yet given a place.
getGuesses(w) ==
    LET highPrio == highPrioFrom(w, 0, <<>>)
        lowPrio == lowPrioFrom(w, 0, doneBordersOf(w), <<>>)
    IN  IF Len(highPrio) + Len(lowPrio) = 0 /\ ~isComplete(w.borders)
        THEN [exc |-> AssertionError, ret |-> [len |-> 0, highPrio |-> <<>>, lowPrio |-> <<>>]]
        ELSE [exc |-> NoException,
              ret |-> [len |-> Len(highPrio) + Len(lowPrio),
                       highPrio |-> highPrio, lowPrio |-> lowPrio]]

\* A list without its first element equal to x.
RECURSIVE removeFirst(_, _)
removeFirst(list, x) ==
    IF list = <<>> THEN <<>>
    ELSE IF Head(list) = x THEN Tail(list)
    ELSE <<Head(list)>> \o removeFirst(Tail(list), x)

\* random.shuffle: the guesses that may stand at the next place of the list.
nextGuesses(guessList) ==
    IF guessList.highPrio # <<>> THEN Range(guessList.highPrio) ELSE Range(guessList.lowPrio)

placed(guessList, g) ==
    IF guessList.highPrio # <<>>
    THEN [guessList EXCEPT !.highPrio = removeFirst(guessList.highPrio, g)]
    ELSE [guessList EXCEPT !.lowPrio = removeFirst(guessList.lowPrio, g)]

\* The rules of the cells and borders, their found move left unreported.
solveRulesUnreported(w) == return(solveObvious(w), FALSE)

\* One turn of the loop of _solve, up to the walk of removeLoopMakingMove.
_solveRules(w) ==
    With([w1 \in {solveObvious(w)} |->
    IF w1.exc = NoException /\ ~w1.ret
    THEN checkCellGroupClues(updateCellGroups(w1))
    ELSE w1])

\* The borders that walk may blank: its first find, in the set's own order.
loopMoves(w) ==
    IF w.exc = NoException /\ ~w.ret /\ loopMakingBorders(w) # {}
    THEN loopMakingBorders(w)
    ELSE {None}

\* The rest of the turn; bdrIdx is the find of removeLoopMakingMove.
_solveLoop(w, bdrIdx) ==
    With([w1 \in {IF w.exc = NoException /\ ~w.ret THEN removeLoopMakingMove(w, bdrIdx) ELSE w} |->
    IF w1.exc = NoException /\ ~w1.ret /\ ~w1.isClone
    THEN solveUsingCornerEntryInfo(w1)
    ELSE w1])

(***************************************************************************)
(* The puzzles the program is run on                                       *)
(***************************************************************************)
MaxRows == 2
MaxCols == 2
MaxRuns == 2

Chars == {".", "0", "1", "2", "3"}

\* Every puzzle of up to MaxRows x MaxCols cells.
SmallPuzzles ==
    UNION {{[rows |-> rows, cols |-> cols, cellDataString |-> s] :
                s \in [1 .. rows * cols -> Chars]} :
           <<rows, cols>> \in (1 .. MaxRows) \X (1 .. MaxCols)}

\* Some wider puzzles: in the first three the solver has to guess; in '.0..1.'
\* the groups of the cells above and below a 1-cell become known; in '....1.'
\* a guess closes a loop while borders are UNSET; in '..111.' an UNSET border
\* joins two ends of one group of ACTIVE borders on the way to the solution.
WidePuzzles ==
    {[rows |-> 2, cols |-> 3, cellDataString |-> <<"2", "3", "2", ".", ".", ".">>],
     [rows |-> 2, cols |-> 3, cellDataString |-> <<"3", "1", ".", ".", "2", ".">>],
     [rows |-> 2, cols |-> 3, cellDataString |-> <<".", "1", "3", ".", "2", ".">>],
     [rows |-> 2, cols |-> 3, cellDataString |-> <<".", "2", ".", "3", "2", "3">>],
     [rows |-> 2, cols |-> 3, cellDataString |-> <<"3", "2", "3", ".", ".", ".">>],
     [rows |-> 2, cols |-> 3, cellDataString |-> <<"0", "1", ".", ".", ".", "1">>],
     [rows |-> 2, cols |-> 3, cellDataString |-> <<".", "0", ".", ".", "1", ".">>],
     [rows |-> 2, cols |-> 3, cellDataString |-> <<".", ".", ".", ".", "1", ".">>],
     [rows |-> 2, cols |-> 3, cellDataString |-> <<".", ".", "1", "1", "1", ".">>],
     [rows |-> 1, cols |-> 3, cellDataString |-> <<"3", "3", "0">>]}

Puzzles == SmallPuzzles \cup WidePuzzles

\* Every order in which the elements of a set can be walked.
orders(S) ==
    {order \in [1 .. Cardinality(S) -> S] :
        \A i, j \in 1 .. Cardinality(S) : order[i] = order[j] => i = j}

(***************************************************************************)
(* The program                                                             *)
(***************************************************************************)
VARIABLES
    BoardTools,     \* the class attributes rows and cols of BoardTools
    heap,           \* the lists of border statuses, by address
    board,          \* the board of the solver
    solver,         \* the solver's own fields
    pc,             \* where solveBoardFromScratch stands
    cloneBoard,     \* local cloneBoard: <<>> until assigned
    isValid,        \* local isValid
    currGuessIdx,   \* local currGuessIdx
    guessList,      \* local guessList
    guess,          \* the guess at guessList[currGuessIdx], once it was read
    error,          \* the exception solveBoardFromScratch ended with
    runs,           \* how many times solveBoardFromScratch was called
    lastBorders,    \* getBordersString() at the end of the call before this one
    call,           \* the board tool called last, with its arguments
    result          \* what that call returned or raised

vars == <<BoardTools, heap, board, solver, pc, cloneBoard, isValid,
          currGuessIdx, guessList, guess, error, runs, lastBorders, call, result>>

locals == <<cloneBoard, isValid, currGuessIdx, guessList, guess>>

noGuesses == [len |-> 0, highPrio |-> <<>>, lowPrio |-> <<>>]

\* No board tool was called on its own.
noCall == [op |-> "none"]

noResult == [exc |-> NoException, ret |-> None]

\* The board b, its border list and the solver's corner entries, as the rules see them.
world(b, borders, cornerEntry) ==
    [bt |-> BoardTools, rows |-> b.rows, cols |-> b.cols, cells |-> b.cells,
     borders |-> borders, cellGroups |-> b.cellGroups,
     cornerEntries |-> b.cornerEntries, isClone |-> b.isClone,
     cornerEntry |-> cornerEntry, exc |-> NoException, ret |-> FALSE, refused |-> FALSE]

\* createBoard of main.py, then Solver(board).
Init ==
    \E puzzle \in Puzzles :
        /\ BoardTools = [rows |-> puzzle.rows, cols |-> puzzle.cols]
        /\ board = fromString(puzzle.rows, puzzle.cols, puzzle.cellDataString).ret
        /\ heap = [a \in {1} |-> newBorders(puzzle.rows, puzzle.cols)]
        /\ solver = [rows |-> puzzle.rows, cols |-> puzzle.cols,
                     initialized |-> FALSE, cornerEntry |-> <<>>]
        /\ pc = "idle"
        /\ cloneBoard = <<>>
        /\ isValid = FALSE
        /\ currGuessIdx = 0
        /\ guessList = noGuesses
        /\ guess = <<>>
        /\ error = NoException
        /\ runs = 0
        /\ lastBorders = <<>>
        /\ call = noCall
        /\ result = noResult

\* solveBoardFromScratch up to its first _solve, with fresh locals: reset,
\* corner entries, solveInit.
SolveBoardFromScratch ==
    /\ pc \in {"idle", "done"}
    /\ runs < MaxRuns
    /\ \E order \in orders(reqCells(board)) :
        LET r == reset(board, heap)
            cornerEntry == unknownCornerEntries(solver.rows, solver.cols)
            w == solveInit(world(r.board, r.heap[r.board.borders], cornerEntry), order)
        IN  /\ board' = r.board
            /\ heap' = [r.heap EXCEPT ![r.board.borders] = w.borders]
            /\ solver' = [solver EXCEPT !.cornerEntry = cornerEntry, !.initialized = TRUE]
    /\ pc' = "initial"
    /\ runs' = runs + 1
    /\ lastBorders' = IF pc = "done" THEN getBordersString(heap[board.borders]) ELSE lastBorders
    /\ cloneBoard' = <<>>
    /\ isValid' = FALSE
    /\ currGuessIdx' = 0
    /\ guessList' = noGuesses
    /\ guess' = <<>>
    /\ UNCHANGED <<BoardTools, call, result, error>>

\* The board that the running _solve was called on.
solving == IF pc = "clone" THEN cloneBoard[1] ELSE board

\* Where solveBoardFromScratch goes on when the running _solve returns.
returned == IF pc = "initial" THEN "initialSolved"
            ELSE IF pc = "clone" THEN "evaluated"
            ELSE "resolved"

\* One turn of the loop of _solve on the board it was called on, up to updateUI;
\* _solve returns when the turn found no move or raised InvalidBoardException.
Solve ==
    /\ pc \in {"initial", "clone", "resolve"}
    /\ \E w \in {_solveRules(world(solving, heap[solving.borders], solver.cornerEntry))} :
       \E bdrIdx \in loopMoves(w) :
       \E w1 \in {_solveLoop(w, bdrIdx)} :
            LET b == [solving EXCEPT !.cellGroups = w1.cellGroups]
            IN  /\ heap' = [heap EXCEPT ![solving.borders] = w1.borders]
                /\ solver' = [solver EXCEPT !.cornerEntry = w1.cornerEntry]
                /\ IF pc = "clone"
                   THEN cloneBoard' = <<b>> /\ board' = board
                   ELSE board' = b /\ cloneBoard' = cloneBoard
                /\ IF w1.exc = InvalidBoardException
                   THEN /\ isValid' = FALSE
                        /\ pc' = returned
                        /\ UNCHANGED <<currGuessIdx, guessList, guess, error>>
                   ELSE IF w1.exc # NoException
                   THEN /\ pc' = "failed"
                        /\ error' = w1.exc
                        /\ UNCHANGED <<isValid, currGuessIdx, guessList, guess>>
                   ELSE IF w1.ret
                   THEN UNCHANGED <<pc, isValid, currGuessIdx, guessList, guess, error>>
                   ELSE /\ isValid' = TRUE
                        /\ pc' = returned
                        /\ UNCHANGED <<currGuessIdx, guessList, guess, error>>
    /\ UNCHANGED <<BoardTools, call, result, runs, lastBorders>>

\* After the first _solve: the assert, then the first guess list.
FirstGuesses ==
    /\ pc = "initialSolved"
    /\ LET g == getGuesses(world(board, heap[board.borders], solver.cornerEntry))
       IN  IF ~isValid
           THEN /\ pc' = "failed"
                /\ error' = AssertionError
                /\ UNCHANGED <<currGuessIdx, guessList>>
           ELSE IF g.exc # NoException
           THEN /\ pc' = "failed"
                /\ error' = g.exc
                /\ UNCHANGED <<currGuessIdx, guessList>>
           ELSE /\ pc' = "guessing"
                /\ currGuessIdx' = 0
                /\ guessList' = g.ret
                /\ UNCHANGED error
    /\ UNCHANGED <<BoardTools, call, result, heap, board, solver, cloneBoard, isValid, guess, runs, lastBorders>>

\* The top of the outer loop: a new guess list when the old one is used up.
NewGuesses ==
    /\ pc = "guessing"
    /\ LET g == getGuesses(world(board, heap[board.borders], solver.cornerEntry))
       IN  IF currGuessIdx < guessList.len
           THEN /\ pc' = "inner"
                /\ UNCHANGED <<currGuessIdx, guessList, guess, error>>
           ELSE IF g.exc # NoException
           THEN /\ pc' = "failed"
                /\ error' = g.exc
                /\ currGuessIdx' = 0
                /\ UNCHANGED <<guessList, guess>>
           ELSE /\ pc' = "inner"
                /\ currGuessIdx' = 0
                /\ guessList' = g.ret
                /\ guess' = <<>>
                /\ UNCHANGED error
    /\ UNCHANGED <<BoardTools, call, result, heap, board, solver, cloneBoard, isValid, runs, lastBorders>>

\* guessList[currGuessIdx] is read: a border that is no longer UNSET is passed over.
passOver(g, list) ==
    /\ currGuessIdx' = currGuessIdx + 1
    /\ guessList' = list
    /\ guess' = <<>>
    /\ pc' = "inner"
    /\ UNCHANGED <<heap, cloneBoard>>

\* ... and an UNSET one is set as guessed on a clone, which _solve then works on.
tryOnClone(g, list) ==
    LET c == clone(board, heap)
        w == setBorder(world(c.board, c.heap[c.board.borders], solver.cornerEntry), g[1], g[2])
    IN  /\ cloneBoard' = <<c.board>>
        /\ heap' = [c.heap EXCEPT ![c.board.borders] = w.borders]
        /\ guessList' = list
        /\ guess' = <<g>>
        /\ pc' = "clone"
        /\ UNCHANGED currGuessIdx

\* One turn of the inner loop, up to the call of _solve on the clone.
Guess ==
    /\ pc = "inner"
    /\ IF currGuessIdx >= guessList.len
       THEN /\ pc' = "resolve"
            /\ UNCHANGED <<heap, cloneBoard, currGuessIdx, guessList, guess>>
       ELSE IF guess # <<>>
       THEN IF heap[board.borders][guess[1][1]] = UNSET
            THEN tryOnClone(guess[1], guessList)
            ELSE passOver(guess[1], guessList)
       ELSE \E g \in nextGuesses(guessList) :
                IF heap[board.borders][g[1]] = UNSET
                THEN tryOnClone(g, placed(guessList, g))
                ELSE passOver(g, placed(guessList, g))
    /\ UNCHANGED <<BoardTools, call, result, board, solver, isValid, error, runs, lastBorders>>

\* The clone's _solve returned: an invalid clone puts the opposite on the board.
Conclude ==
    /\ pc = "evaluated"
    /\ IF ~isValid
       THEN LET w == setBorder(world(board, heap[board.borders], solver.cornerEntry),
                               guess[1][1], opposite(guess[1][2]))
            IN  /\ heap' = [heap EXCEPT ![board.borders] = w.borders]
                /\ IF w.exc # NoException
                   THEN pc' = "failed" /\ error' = w.exc
                   ELSE pc' = "resolve" /\ error' = error
                /\ UNCHANGED <<currGuessIdx, guess>>
       ELSE /\ currGuessIdx' = currGuessIdx + 1
            /\ guess' = <<>>
            /\ pc' = "inner"
            /\ UNCHANGED <<heap, error>>
    /\ UNCHANGED <<BoardTools, call, result, board, solver, cloneBoard, isValid, guessList, runs, lastBorders>>

\* After the _solve of the board itself: leave the outer loop on a complete board.
Complete ==
    /\ pc = "resolved"
    /\ IF isComplete(heap[board.borders])
       THEN pc' = "done"
       ELSE pc' = "guessing"
    /\ UNCHANGED <<BoardTools, call, result, heap, board, solver, locals, error, runs, lastBorders>>

Next ==
    \/ SolveBoardFromScratch
    \/ Solve
    \/ FirstGuesses
    \/ NewGuesses
    \/ Guess
    \/ Conclude
    \/ Complete

Spec == Init /\ [][Next]_vars

\* Once solveBoardFromScratch is called, every step of it that can be taken is
\* taken in the end; nothing makes the call itself happen.
\* For Solve, weak fairness is written out: Solve can take a step exactly while
\* a _solve is running, so either no _solve runs again and again or Solve steps do.
FairSpec ==
    /\ Spec
    /\ WF_vars(FirstGuesses)
    /\ WF_vars(NewGuesses)
    /\ WF_vars(Guess)
    /\ WF_vars(Conclude)
    /\ WF_vars(Complete)
    /\ ([]<>(pc \notin {"initial", "clone", "resolve"}) \/ []<><<Solve>>_vars)

(***************************************************************************)
(* The board tools and Board.fromString called on their own, once          *)
(* createBoard has set the size in BoardTools                              *)
(***************************************************************************)
MaxToolRows == 3
MaxToolCols == 3
MaxLen == 4

\* Every string of up to n of the characters.
strings(n) == UNION {[1 .. len -> Chars] : len \in 0 .. n}

\* What the wrappers of BoardTools read: the class attributes.
tools == [bt |-> BoardTools]

validBorders == 0 .. _numBorders(BoardTools.rows, BoardTools.cols) - 1

validCells == cellIndices(BoardTools.rows, BoardTools.cols)

\* createBoard of main.py after its assignments to BoardTools.rows and BoardTools.cols.
ToolsInit ==
    \E rows \in 1 .. MaxToolRows, cols \in 1 .. MaxToolCols :
        /\ BoardTools = [rows |-> rows, cols |-> cols]
        /\ heap = <<>>
        /\ board = <<>>
        /\ solver = <<>>
        /\ pc = "createBoard"
        /\ cloneBoard = <<>>
        /\ isValid = FALSE
        /\ currGuessIdx = 0
        /\ guessList = noGuesses
        /\ guess = <<>>
        /\ error = NoException
        /\ runs = 0
        /\ lastBorders = <<>>
        /\ call = noCall
        /\ result = noResult

\* The tools keep nothing from one call to the next: a behaviour holds one call.
program == <<BoardTools, heap, board, solver, pc, locals, error, runs, lastBorders>>

\* Board.fromString(rows, cols, data) as createBoard calls it.
FromString ==
    /\ call = noCall
    /\ \E cellDataString \in strings(MaxLen) :
        /\ call' = [op |-> "fromString", rows |-> BoardTools.rows, cols |-> BoardTools.cols,
                    cellDataString |-> cellDataString]
        /\ result' = fromString(BoardTools.rows, BoardTools.cols, cellDataString)
    /\ UNCHANGED program

\* BoardTools.isBorderHorizontal(borderIdx)
IsBorderHorizontal ==
    /\ call = noCall
    /\ \E borderIdx \in validBorders :
        /\ call' = [op |-> "isBorderHorizontal", borderIdx |-> borderIdx]
        /\ result' = isBorderHorizontal(tools, borderIdx)
    /\ UNCHANGED program

\* BoardTools.getConnectedBorders(borderIdx)
GetConnectedBorders ==
    /\ call = noCall
    /\ \E borderIdx \in validBorders :
        /\ call' = [op |-> "getConnectedBorders", borderIdx |-> borderIdx]
        /\ result' = [exc |-> NoException, ret |-> getConnectedBorders(tools, borderIdx)]
    /\ UNCHANGED program

\* BoardTools.getCommonVertex(borderIdx1, borderIdx2)
GetCommonVertex ==
    /\ call = noCall
    /\ \E borderIdx1 \in validBorders, borderIdx2 \in validBorders :
        /\ call' = [op |-> "getCommonVertex", borderIdx1 |-> borderIdx1,
                    borderIdx2 |-> borderIdx2]
        /\ result' = [exc |-> NoException,
                      ret |-> getCommonVertex(tools, borderIdx1, borderIdx2)]
    /\ UNCHANGED program

\* BoardTools.getArms(row, col, cornerDir)
GetArms ==
    /\ call = noCall
    /\ \E cell \in validCells, cornerDir \in {ULEFT, URIGHT, LRIGHT, LLEFT} :
        /\ call' = [op |-> "getArms", row |-> cell[1], col |-> cell[2],
                    cornerDir |-> cornerDir]
        /\ result' = [exc |-> NoException,
                      ret |-> getArms(tools, cell[1], cell[2], cornerDir)]
    /\ UNCHANGED program

ToolsNext ==
    \/ FromString
    \/ IsBorderHorizontal
    \/ GetConnectedBorders
    \/ GetCommonVertex
    \/ GetArms

ToolsSpec == ToolsInit /\ [][ToolsNext]_vars

(***************************************************************************)
(* solver/sub/cont_unset.py: the continuous unset borders of a cell, as    *)
(* functions of a solver and a board                                       *)
(***************************************************************************)
\* <<cornersStatus, count>>: the corners whose two borders are UNSET and whose
\* arms are all BLANK.
_getCornersStatus(w, corners, arms) ==
    LET allBlank(armList) == \A i \in 1..Len(armList) : w.borders[armList[i]] = BLANK
        cornersStatus == [i \in 1..4 |->
            /\ w.borders[corners[i][1]] = UNSET
            /\ w.borders[corners[i][2]] = UNSET
            /\ allBlank(arms[i])]
    IN
    <<cornersStatus, Cardinality({i \in 1..4 : cornersStatus[i]})>>

_process1Cell(w, cellInfo, corners, cornersStatus) ==
    LET RECURSIVE each(_, _, _)
        each(w0, i, foundMove) ==
            IF w0.exc # NoException THEN w0
            ELSE IF i > 4 THEN return(w0, foundMove)
            ELSE IF ~cornersStatus[i] THEN each(w0, i + 1, foundMove)
            ELSE
            With([dxn \in {DiagonalDirection[i]} |->
            With([w1 \in {handleSmoothCorner(w0, cellInfo, dxn)} |->
            With([w2 \in {initiatePoke(w1, cellInfo.row, cellInfo.col, dxnOpposite(dxn))} |->
            With([w3 \in {setBorder(w2, corners[i][1], BLANK)} |->
            each(setBorder(w3, corners[i][2], BLANK), i + 1, TRUE)])])])])
    IN
    each(w, 1, FALSE)

_process2Cell(w, cellInfo, corners, cornersStatus) ==
    LET RECURSIVE each(_, _)
        each(w0, i) ==
            IF w0.exc # NoException THEN w0
            ELSE IF i > 4 THEN return(w0, FALSE)
            ELSE IF ~cornersStatus[i] THEN each(w0, i + 1)
            ELSE
            With([dxn \in {DiagonalDirection[i]} |->
            With([w1 \in {handleSmoothCorner(w0, cellInfo, dxn)} |->
            With([w2 \in {handleSmoothCorner(w1, cellInfo, dxnOpposite(dxn))} |->
            IF w2.exc # NoException THEN w2
            ELSE IF cellInfo.bdrBlankCount > 1
            THEN With([w3 \in {setBorder(w2, corners[i][1], ACTIVE)} |->
                 return(setBorder(w3, corners[i][2], ACTIVE), TRUE)])
            ELSE IF cellInfo.bdrActiveCount > 1
            THEN With([w3 \in {setBorder(w2, corners[i][1], BLANK)} |->
                 return(setBorder(w3, corners[i][2], BLANK), TRUE)])
            ELSE each(w2, i + 1)])])])
    IN
    each(w, 1)

_process3Cell(w, cellInfo, corners, cornersStatus) ==
    LET RECURSIVE each(_, _, _)
        each(w0, i, foundMove) ==
            IF w0.exc # NoException THEN w0
            ELSE IF i > 4 THEN return(w0, foundMove)
            ELSE IF ~cornersStatus[i] THEN each(w0, i + 1, foundMove)
            ELSE
            With([dxn \in {DiagonalDirection[i]} |->
            With([w1 \in {setBorder(w0, corners[i][1], ACTIVE)} |->
            With([w2 \in {setBorder(w1, corners[i][2], ACTIVE)} |->
            With([w3 \in {handleSmoothCorner(w2, cellInfo, dxn)} |->
            each(initiatePoke(w3, cellInfo.row, cellInfo.col, dxnOpposite(dxn)),
                 i + 1, TRUE)])])])])
    IN
    each(w, 1, FALSE)

\* checkCellForContinuousUnsetBorders(solver, board, cellInfo) of the submodule.
cont_unset_checkCellForContinuousUnsetBorders(w, cellInfo) ==
    LET row == cellInfo.row
        col == cellInfo.col
        corners == [i \in 1..4 |-> getCornerBorderIndices(w, row, col, DiagonalDirection[i])]
        arms == [i \in 1..4 |-> getArms(w, row, col, DiagonalDirection[i])]
    IN
    IF w.exc # NoException THEN w
    ELSE IF cellInfo.bdrUnsetCount < 2 THEN return(w, FALSE)
    ELSE IF cellInfo.reqNum = None \/ cellInfo.reqNum = 0 THEN return(w, FALSE)
    ELSE
    With([status \in {_getCornersStatus(w, corners, arms)} |->
    IF status[2] = 0 THEN return(w, FALSE)
    ELSE IF status[2] = 4 THEN raise(w, InvalidBoardException)
    ELSE CASE cellInfo.reqNum = 1 -> _process1Cell(w, cellInfo, corners, status[1])
           [] cellInfo.reqNum = 2 -> _process2Cell(w, cellInfo, corners, status[1])
           [] cellInfo.reqNum = 3 -> _process3Cell(w, cellInfo, corners, status[1])
           [] OTHER -> raise(w, AssertionError)])

(***************************************************************************)
(* solver/sub/poke.py: pokes and smooth corners as functions of a board,   *)
(* which keeps the pokes made and the entries of its corners               *)
(***************************************************************************)
RecursionError == "RecursionError"

\* The frames a call may nest before the interpreter raises RecursionError.
RecursionLimit == 12

\* The board b as the functions of the submodule see it.
pokeWorld(b, borders) ==
    world(b, borders, <<>>) @@ [pokes |-> b.pokes, depth |-> 0]

\* A call enters a new frame.
enter(w) ==
    IF w.exc # NoException THEN w
    ELSE IF w.depth >= RecursionLimit THEN raise(w, RecursionError)
    ELSE [w EXCEPT !.depth = @ + 1]

\* The call that was entered from w has left its frame with r.
leave(w, r) == [r EXCEPT !.depth = w.depth]

\* board.cornerEntries[row][col][dxn] = entry
cornerEntriesPut(w, row, col, dxn, entry) ==
    IF w.exc # NoException THEN w
    ELSE [w EXCEPT !.cornerEntries[<<row, col>>][dxn + 1] = entry]

RECURSIVE poke_initiatePoke(_, _, _, _)
RECURSIVE poke_handleCellPoke(_, _, _, _)
RECURSIVE poke_handleSmoothCorner(_, _, _, _)

\* initiatePoke without the look at board.pokes.
initiatePokeUnmemoized(w, origRow, origCol, dxn) ==
    LET targetRow == IF dxn \in {ULEFT, URIGHT} THEN origRow - 1 ELSE origRow + 1
        targetCol == IF dxn \in {ULEFT, LLEFT} THEN origCol - 1 ELSE origCol + 1
    IN
    With([w0 \in {enter(w)} |->
    IF w0.exc # NoException THEN w0
    ELSE
    With([w1 \in {[w0 EXCEPT !.pokes = @ \cup {<<origRow, origCol, dxn>>}]} |->
    With([w2 \in {cornerEntriesPut(w1, origRow, origCol, dxn, POKE)} |->
    With([w3 \in {IF w.cells[<<origRow, origCol>>] = 2
                  THEN cornerEntriesPut(w2, origRow, origCol, dxnOpposite(dxn), POKE)
                  ELSE w2} |->
    With([arms \in {getArms(w3, origRow, origCol, dxn)} |->
    leave(w,
          IF isValidCellIdx(w3, targetRow, targetCol)
          THEN poke_handleCellPoke(w3, targetRow, targetCol, dxnOpposite(dxn))
          ELSE IF ~(Len(arms) < 2) THEN raise(w3, AssertionError)
          ELSE setFirst(w3, arms, ACTIVE))])])])])])

poke_initiatePoke(w, origRow, origCol, dxn) ==
    LET targetRow == IF dxn \in {ULEFT, URIGHT} THEN origRow - 1 ELSE origRow + 1
        targetCol == IF dxn \in {ULEFT, LLEFT} THEN origCol - 1 ELSE origCol + 1
    IN
    With([w0 \in {enter(w)} |->
    IF w0.exc # NoException THEN w0
    ELSE IF <<origRow, origCol, dxn>> \in w.pokes THEN leave(w, return(w0, FALSE))
    ELSE
    With([w1 \in {[w0 EXCEPT !.pokes = @ \cup {<<origRow, origCol, dxn>>}]} |->
    With([w2 \in {cornerEntriesPut(w1, origRow, origCol, dxn, POKE)} |->
    With([w3 \in {IF w.cells[<<origRow, origCol>>] = 2
                  THEN cornerEntriesPut(w2, origRow, origCol, dxnOpposite(dxn), POKE)
                  ELSE w2} |->
    With([arms \in {getArms(w3, origRow, origCol, dxn)} |->
    leave(w,
          IF isValidCellIdx(w3, targetRow, targetCol)
          THEN poke_handleCellPoke(w3, targetRow, targetCol, dxnOpposite(dxn))
          ELSE IF ~(Len(arms) < 2) THEN raise(w3, AssertionError)
          ELSE setFirst(w3, arms, ACTIVE))])])])])])

poke_handleCellPoke(w, row, col, dxn) ==
    LET reqNum == w.cells[<<row, col>>]
        oppoDxn == dxnOpposite(dxn)
        top(r, c) == getBorderIdx(w, r, c, TOP)
        bot(r, c) == getBorderIdx(w, r, c, BOT)
        left(r, c) == getBorderIdx(w, r, c, LEFT)
        right(r, c) == getBorderIdx(w, r, c, RIGHT)
        \* the cell is on the rim of the board and no move was found
        alongRow(v) ==
            IF row = 0
            THEN IF dxn = ULEFT /\ col - 1 >= 0
                 THEN setBorder(v, top(row, col - 1), ACTIVE)
                 ELSE IF dxn = URIGHT /\ col + 1 < w.cols
                 THEN setBorder(v, top(row, col + 1), ACTIVE)
                 ELSE return(v, FALSE)
            ELSE IF row = w.rows - 1
            THEN IF dxn = LRIGHT /\ col + 1 < w.cols
                 THEN setBorder(v, bot(row, col + 1), ACTIVE)
                 ELSE IF dxn = LLEFT /\ col - 1 >= 0
                 THEN setBorder(v, bot(row, col - 1), ACTIVE)
                 ELSE return(v, FALSE)
            ELSE return(v, FALSE)
        alongCol(v) ==
            IF col = 0
            THEN IF dxn = ULEFT /\ row - 1 >= 0
                 THEN setBorder(v, left(row - 1, col), ACTIVE)
                 ELSE IF dxn = LLEFT /\ row + 1 < w.rows
                 THEN setBorder(v, left(row + 1, col), ACTIVE)
                 ELSE return(v, FALSE)
            ELSE IF col = w.cols - 1
            THEN IF dxn = URIGHT /\ row - 1 >= 0
                 THEN setBorder(v, right(row - 1, col), ACTIVE)
                 ELSE IF dxn = LRIGHT /\ row + 1 < w.rows
                 THEN setBorder(v, right(row + 1, col), ACTIVE)
                 ELSE return(v, FALSE)
            ELSE return(v, FALSE)
        rim(v) ==
            IF \/ row = 0 /\ col = 0 /\ dxn = ULEFT
               \/ row = w.rows - 1 /\ col = 0 /\ dxn = LLEFT
               \/ row = 0 /\ col = w.cols - 1 /\ dxn = URIGHT
               \/ row = w.rows - 1 /\ col = w.cols - 1 /\ dxn = LRIGHT
            THEN raise(v, InvalidBoardException)
            ELSE With([v1 \in {alongRow(v)} |-> orRet(v1.ret, alongCol(v1))])
    IN
    With([w0 \in {cornerEntriesPut(enter(w), row, col, dxn, POKE)} |->
    IF w0.exc # NoException THEN w0
    ELSE
    With([corner \in {getCornerBorderIndices(w0, row, col, dxn)} |->
    With([oppCorner \in {getCornerBorderIndices(w0, row, col, oppoDxn)} |->
    \* one border of the poked corner is set: the other one is its opposite
    With([w1 \in {IF w0.borders[corner[1]] = ACTIVE THEN setBorder(w0, corner[2], BLANK)
                  ELSE IF w0.borders[corner[2]] = ACTIVE THEN setBorder(w0, corner[1], BLANK)
                  ELSE IF w0.borders[corner[1]] = BLANK THEN setBorder(w0, corner[2], ACTIVE)
                  ELSE IF w0.borders[corner[2]] = BLANK THEN setBorder(w0, corner[1], ACTIVE)
                  ELSE return(w0, FALSE)} |->
    \* by requirement
    With([w2 \in {
        IF reqNum = 1 THEN orRet(w1.ret, setEach(w1, oppCorner, BLANK))
        ELSE IF reqNum = 2
        THEN With([lone \in {IF w1.borders[oppCorner[1]] = BLANK
                             THEN orRet(w1.ret, setBorder(w1, oppCorner[2], ACTIVE))
                             ELSE IF w1.borders[oppCorner[2]] = BLANK
                             THEN orRet(w1.ret, setBorder(w1, oppCorner[1], ACTIVE))
                             ELSE w1} |->
             orRet(lone.ret, poke_initiatePoke(lone, row, col, oppoDxn))])
        ELSE IF reqNum = 3
        THEN With([opp3 \in {orRet(w1.ret, setEach(w1, oppCorner, ACTIVE))} |->
             With([arms \in {getArms(w0, row, col, dxn)} |->
             With([armCount \in {getStatusCount(opp3, arms)} |->
             IF armCount[2] > 1 THEN raise(opp3, InvalidBoardException)
             ELSE IF armCount[2] = 1 /\ armCount[1] > 0
             THEN orRet(opp3.ret, setEach(opp3, unsetOf(opp3, arms), BLANK))
             ELSE opp3])])])
        ELSE w1} |->
    leave(w,
          IF w2.exc # NoException \/ w2.ret THEN w2
          ELSE IF row = 0 \/ col = 0 \/ row = w.rows - 1 \/ col = w.cols - 1
          THEN rim(w2)
          ELSE w2)])])])])])

poke_handleSmoothCorner(w, row, col, dxn) ==
    LET reqNum == w.cells[<<row, col>>]
        oppoDxn == dxnOpposite(dxn)
        dxn1 == IF dxn \in {ULEFT, LRIGHT} THEN URIGHT ELSE ULEFT
        dxn2 == IF dxn \in {ULEFT, LRIGHT} THEN LLEFT ELSE LRIGHT
    IN
    With([w0 \in {cornerEntriesPut(enter(w), row, col, dxn, SMOOTH)} |->
    With([w1 \in {IF reqNum = 2 THEN cornerEntriesPut(w0, row, col, oppoDxn, SMOOTH)
                  ELSE w0} |->
    IF w1.exc # NoException THEN w1
    ELSE
    With([corner \in {getCornerBorderIndices(w1, row, col, dxn)} |->
    LET cornerIdx1 == corner[1]
        cornerIdx2 == corner[2]
        cornerStat1 == w1.borders[cornerIdx1]
        cornerStat2 == w1.borders[cornerIdx2]
    IN
    With([arms \in {getArms(w1, row, col, dxn)} |->
    With([unsetArms \in {unsetOf(w1, arms)} |->
    LET armStatus == IF getStatusCount(w1, arms)[2] % 2 = 0 THEN BLANK ELSE ACTIVE
    IN
    leave(w,
      IF cornerStat1 = cornerStat2 /\ cornerStat1 # UNSET THEN return(w1, FALSE)
      ELSE IF cornerStat1 # cornerStat2
      THEN IF cornerStat1 = UNSET
           THEN return(setBorder(w1, cornerIdx1, cornerStat2), TRUE)
           ELSE IF cornerStat2 = UNSET
           THEN return(setBorder(w1, cornerIdx2, cornerStat1), TRUE)
           ELSE raise(w1, InvalidBoardException)
      ELSE
      \* the smooth corner with a single UNSET arm
      With([w2 \in {IF Len(unsetArms) = 1
                    THEN setBorder(w1, unsetArms[Len(unsetArms)], armStatus)
                    ELSE return(w1, FALSE)} |->
      IF w2.exc # NoException \/ w2.ret THEN w2
      ELSE IF reqNum = 1 THEN setEach(w2, <<cornerIdx1, cornerIdx2>>, BLANK)
      ELSE IF reqNum = 3 THEN setEach(w2, <<cornerIdx1, cornerIdx2>>, ACTIVE)
      ELSE IF reqNum = 2
      THEN With([p1 \in {poke_initiatePoke(w2, row, col, dxn1)} |->
           With([p2 \in {orRet(p1.ret, poke_initiatePoke(p1, row, col, dxn2))} |->
           With([targetCellIdx \in {getCellIdxAtDiagCorner(w1, row, col, oppoDxn)} |->
           IF targetCellIdx # <<>>
           THEN orRet(p2.ret,
                      poke_handleSmoothCorner(p2, targetCellIdx[1], targetCellIdx[2], dxn))
           ELSE With([a \in {setFirst(p2, getArms(w1, row, col, oppoDxn), BLANK)} |->
                IF a.exc # NoException \/ a.ret THEN a ELSE return(a, p2.ret)])])])])
      ELSE return(w2, FALSE)]))])])])])])

(***************************************************************************)
(* The functions of solver/sub/poke.py called on a board, one call after   *)
(* the other, by whichever rule finds a poke or a smooth corner            *)
(***************************************************************************)
\* Boards with chains of 2-cells along their diagonals, and with 1- and 3-cells.
PokePuzzles ==
    {[rows |-> 2, cols |-> 2, cellDataString |-> <<"2", "2", "2", "2">>],
     [rows |-> 2, cols |-> 2, cellDataString |-> <<"1", "2", "2", "3">>],
     [rows |-> 2, cols |-> 2, cellDataString |-> <<"3", ".", "2", "1">>],
     [rows |-> 3, cols |-> 3,
      cellDataString |-> <<"2", ".", ".", ".", "2", ".", ".", ".", "2">>],
     [rows |-> 3, cols |-> 3,
      cellDataString |-> <<"3", ".", "1", ".", "2", ".", "2", ".", ".">>]}

PokeInit ==
    \E puzzle \in PokePuzzles :
        /\ BoardTools = [rows |-> puzzle.rows, cols |-> puzzle.cols]
        /\ board = fromString(puzzle.rows, puzzle.cols, puzzle.cellDataString).ret
        /\ heap = <<newBorders(puzzle.rows, puzzle.cols)>>
        /\ solver = <<>>
        /\ pc = "poking"
        /\ cloneBoard = <<>>
        /\ isValid = FALSE
        /\ currGuessIdx = 0
        /\ guessList = noGuesses
        /\ guess = <<>>
        /\ error = NoException
        /\ runs = 0
        /\ lastBorders = <<>>
        /\ call = noCall
        /\ result = noResult

\* The calls made on a board between two resets.
MaxCalls == 3

\* What a call of the submodule leaves alone.
untouched == <<BoardTools, solver, pc, locals, error, lastBorders>>

\* The board and its border list after a call that ended in the world r.
pokeDone(r) ==
    /\ board' = [board EXCEPT !.pokes = r.pokes, !.cornerEntries = r.cornerEntries]
    /\ heap' = [heap EXCEPT ![board.borders] = r.borders]
    /\ result' = [exc |-> r.exc, ret |-> r.ret]
    /\ runs' = runs + 1
    /\ UNCHANGED untouched

\* The cells that the calls are made on: the cells that hold a number.
numbered == {c \in cellIndices(board.rows, board.cols) : board.cells[c] # None}

\* No call on this board has raised since its last reset; runs counts the calls.
poking == pc = "poking" /\ result.exc = NoException /\ runs < MaxCalls

InitiatePoke ==
    /\ poking
    /\ \E c \in numbered, dxn \in Range(DiagonalDirection) :
          /\ call' = [op |-> "initiatePoke", row |-> c[1], col |-> c[2], dxn |-> dxn,
                       again |-> <<c[1], c[2], dxn>> \in board.pokes]
          /\ pokeDone(poke_initiatePoke(pokeWorld(board, heap[board.borders]), c[1], c[2], dxn))

HandleCellPoke ==
    /\ poking
    /\ \E c \in numbered, dxn \in Range(DiagonalDirection) :
          /\ call' = [op |-> "handleCellPoke", row |-> c[1], col |-> c[2], dxn |-> dxn]
          /\ pokeDone(poke_handleCellPoke(pokeWorld(board, heap[board.borders]), c[1], c[2], dxn))

HandleSmoothCorner ==
    /\ poking
    /\ \E c \in numbered, dxn \in Range(DiagonalDirection) :
          /\ call' = [op |-> "handleSmoothCorner", row |-> c[1], col |-> c[2], dxn |-> dxn]
          /\ pokeDone(poke_handleSmoothCorner(pokeWorld(board, heap[board.borders]),
                                              c[1], c[2], dxn))

\* board.reset()
ResetBoard ==
    /\ pc = "poking"
    /\ call # noCall
    /\ \E r \in {reset(board, heap)} :
          /\ board' = r.board
          /\ heap' = r.heap
    /\ call' = [op |-> "reset"]
    /\ result' = noResult
    /\ runs' = 0
    /\ UNCHANGED untouched

PokeNext ==
    \/ InitiatePoke
    \/ HandleCellPoke
    \/ HandleSmoothCorner
    \/ ResetBoard

PokeSpec == PokeInit /\ [][PokeNext]_vars

(***************************************************************************)
(* The puzzle itself: a solution is one closed loop that meets every clue  *)
(***************************************************************************)
\* The statuses of the borders of the solver's board.
borders == heap[board.borders]

\* solveBoardFromScratch has returned or has raised.
stopped == pc \in {"done", "failed"}

activeAmong(status, bdrs) == Cardinality({i \in DOMAIN bdrs : status[bdrs[i]] = ACTIVE})

unsetAmong(status, bdrs) == Cardinality({i \in DOMAIN bdrs : status[bdrs[i]] = UNSET})

\* The ACTIVE borders that a walk from start reaches through shared vertices.
RECURSIVE reach(_, _, _, _)
reach(rows, cols, status, start) ==
    LET next == start \cup {idx \in DOMAIN status : status[idx] = ACTIVE /\
                   \E g \in start : InSeq(idx, _getConnectedBordersList(rows, cols, g))}
    IN  IF next = start THEN start ELSE reach(rows, cols, status, next)

\* The ACTIVE borders hang together.
connected(rows, cols, status) ==
    LET active == {idx \in DOMAIN status : status[idx] = ACTIVE}
    IN  active = {} \/ reach(rows, cols, status, {CHOOSE idx \in active : TRUE}) = active

\* The borders are one closed loop: connected, and each end of each ACTIVE
\* border meets exactly one other ACTIVE border.
isLoop(rows, cols, status) ==
    /\ \E idx \in DOMAIN status : status[idx] = ACTIVE
    /\ connected(rows, cols, status)
    /\ \A idx \in DOMAIN status : status[idx] = ACTIVE =>
          LET conn == _getConnectedBorders(rows, cols, idx)
          IN  activeAmong(status, conn[1]) = 1 /\ activeAmong(status, conn[2]) = 1

\* The borders around a set of cells.
around(rows, cols, inside) ==
    [idx \in 0 .. _numBorders(rows, cols) - 1 |->
        IF Cardinality({c \in inside : InSeq(idx, _getCellBorders(cols, c[1], c[2]))}) = 1
        THEN ACTIVE ELSE BLANK]

\* Every closed loop of every grid a puzzle is given on (a loop goes around its inside).
Loops ==
    [size \in {<<puzzle.rows, puzzle.cols>> : puzzle \in Puzzles} |->
        {status \in {around(size[1], size[2], inside) :
                         inside \in SUBSET cellIndices(size[1], size[2])} :
            isLoop(size[1], size[2], status)}]

\* The solutions of the puzzle on the solver's board.
solutions ==
    {status \in Loops[<<board.rows, board.cols>>] :
        \A c \in reqCells(board) :
            activeAmong(status, _getCellBorders(board.cols, c[1], c[2])) = board.cells[c]}

uniquelySolvable == Cardinality(solutions) = 1

\* The answer string of a uniquely solvable puzzle.
answer == getBordersString(CHOOSE status \in solutions : TRUE)

(***************************************************************************)
(* Claims                                                                  *)
(***************************************************************************)
\* C1: for a uniquely solvable puzzle, whenever solveBoardFromScratch has
\* stopped it has returned normally (solved) and getBordersString() is the
\* answer string, whatever the order of the guesses was.
C1_SolvedWithAnswer ==
    (uniquelySolvable /\ stopped) =>
        (pc = "done" /\ error = NoException /\ getBordersString(borders) = answer)

\* C2: whenever solveBoardFromScratch has returned with no UNSET border left on
\* its board, a flood fill over connected borders from one ACTIVE border
\* reaches every ACTIVE border.
C2_SingleLoop ==
    (pc = "done" /\ isComplete(borders)) => connected(board.rows, board.cols, borders)

\* The step is the call of solveBoardFromScratch, which resets the board.
resets == pc \in {"idle", "done"} /\ pc' = "initial"

\* solveInit, in an order that gives the borders the step ends with, passed
\* over a border that was set the other way.
initRefused ==
    \E order \in orders(reqCells(board)) :
        LET r == reset(board, heap)
            w == solveInit(world(r.board, r.heap[r.board.borders],
                                 unknownCornerEntries(solver.rows, solver.cols)), order)
        IN  w.borders = heap'[board'.borders] /\ w.refused

\* C3: between two resets no border that is ACTIVE or BLANK changes again, on
\* the board or on a clone, and no attempt to set a border to the other value
\* goes by without InvalidBoardException being raised.
C3_SetOnce ==
    [][/\ ~resets =>
            \A idx \in DOMAIN borders :
                borders[idx] # UNSET => heap'[board'.borders][idx] = borders[idx]
       /\ (pc = "clone" /\ pc' # "initial") =>
            \A idx \in DOMAIN borders :
                heap[cloneBoard[1].borders][idx] # UNSET =>
                    heap'[cloneBoard'[1].borders][idx] = heap[cloneBoard[1].borders][idx]
       /\ resets => ~initRefused]_vars

\* C4: when the clone of a guess (i, v) ends invalid, the next step sets border
\* i of the board to the opposite of v and changes no other border, and
\* from there _solve works on the board itself: no clone is made or worked on
\* before that _solve has returned.
C4_CommitOpposite ==
    [][/\ (pc = "evaluated" /\ ~isValid) =>
            /\ pc' = "resolve"
            /\ heap'[board'.borders] =
                   [borders EXCEPT ![guess[1][1]] = IF guess[1][2] = ACTIVE THEN BLANK ELSE ACTIVE]
            /\ borders[guess[1][1]] = UNSET
       /\ pc = "resolve" =>
            /\ pc' \in {"resolve", "resolved", "failed"}
            /\ cloneBoard' = cloneBoard
            /\ \A a \in DOMAIN heap \ {board.borders} : heap'[a] = heap[a]]_vars

\* The opposite of an invalid guess has just been put on the board.
C4_Witness ==
    /\ pc = "resolve"
    /\ ~isValid
    /\ guess # <<>>
    /\ borders[guess[1][1]] = (IF guess[1][2] = ACTIVE THEN BLANK ELSE ACTIVE)
    /\ heap[cloneBoard[1].borders][guess[1][1]] = guess[1][2]

\* C5: making the clone, setting the guess on it and every turn of _solve on
\* it leave the board's borders, cell groups, corner entries and pokes and the
\* solver's corner entries as they were; so does going on after a valid clone.
C5_CloneOnly ==
    [][(pc' = "clone" \/ pc = "clone" \/ (pc = "evaluated" /\ isValid)) =>
            /\ heap'[board'.borders] = borders
            /\ board' = board
            /\ solver'.cornerEntry = solver.cornerEntry]_vars

\* A clone has been worked on to the end and differs from the board.
C5_Witness ==
    /\ pc = "evaluated"
    /\ heap[cloneBoard[1].borders] # borders
    /\ cloneBoard[1].cellGroups # board.cellGroups
    /\ cloneBoard[1].isClone

\* C6: every call of solveBoardFromScratch comes to a stop.
C6_Terminates == (pc = "initial") ~> stopped

\* C7: when a _solve of the board itself has returned invalid, the next step
\* ends solveBoardFromScratch with an error.
C7_InvalidStops ==
    [][(pc \in {"initialSolved", "resolved"} /\ ~isValid) =>
            (pc' = "failed" /\ error' # NoException)]_vars

\* The cell at c has no more ACTIVE borders than its number and enough
\* ACTIVE or UNSET borders to reach it.
withinReq(c) ==
    LET bdrs == _getCellBorders(board.cols, c[1], c[2])
    IN  /\ activeAmong(borders, bdrs) <= board.cells[c]
        /\ activeAmong(borders, bdrs) + unsetAmong(borders, bdrs) >= board.cells[c]

\* C8: on a solvable puzzle every numbered cell of the board is within its
\* number in every state.
C8_WithinReq == solutions # {} => \A c \in reqCells(board) : withinReq(c)

\* C9: in every state, no end of a border of the board has more than 2
\* ACTIVE borders.
C9_NoBranch ==
    \A idx \in DOMAIN borders :
        LET conn == _getConnectedBorders(board.rows, board.cols, idx)
        IN  /\ activeAmong(borders, <<idx>> \o conn[1]) <= 2
            /\ activeAmong(borders, <<idx>> \o conn[2]) <= 2

\* C10: on a uniquely solvable puzzle a call of solveBoardFromScratch that
\* stops, by returning or by raising, stops with the borders the call before
\* it ended with, whatever the order of the guesses of the two calls was.
C10_SameBorders ==
    (uniquelySolvable /\ stopped /\ lastBorders # <<>>) =>
        getBordersString(borders) = lastBorders

\* Two calls on a uniquely solvable puzzle have ended, the second after guessing.
C10_Witness ==
    /\ uniquelySolvable
    /\ pc = "done"
    /\ lastBorders # <<>>
    /\ cloneBoard # <<>>
    /\ getBordersString(borders) = lastBorders

\* The board that the _solve that has just returned was called on.
solved == IF pc = "evaluated" THEN cloneBoard[1] ELSE board

\* _solve has just returned, and returned valid.
returnedValid == pc \in {"initialSolved", "evaluated", "resolved"} /\ isValid

\* C11: when _solve has returned valid, one more turn of its loop (the rules
\* of every cell and border, the cell-group clues, the loop-making move and
\* the corner entries) on the board it was called on changes no border.
C11_FixedPoint ==
    returnedValid =>
        \A w \in {_solveRules(world(solved, heap[solved.borders], solver.cornerEntry))} :
        \A bdrIdx \in loopMoves(w) :
            _solveLoop(w, bdrIdx).borders = heap[solved.borders]

\* _solve has returned valid from a board that it changed and did not finish.
C11_Witness ==
    /\ returnedValid
    /\ pc = "resolved"
    /\ \E idx \in DOMAIN heap[solved.borders] : heap[solved.borders][idx] = UNSET
    /\ \E idx \in DOMAIN heap[solved.borders] : heap[solved.borders][idx] # UNSET

\* The guess that the clone was made for gives its border the status that
\* the border does not have in the solution.
wrongGuess ==
    /\ uniquelySolvable
    /\ guess # <<>>
    /\ guess[1][2] # (CHOOSE status \in solutions : TRUE)[guess[1][1]]

\* C12: on a uniquely solvable puzzle, when _solve returns from a clone of the
\* board (taken when _solve had returned from the board) that got an UNSET
\* border set to the opposite of the border's status in the solution, it
\* returns not valid: the clone ended with an InvalidBoardException.
C12_WrongGuessInvalid == (pc = "evaluated" /\ wrongGuess) => ~isValid

\* Board.fromString was called with a string whose length is not rows * cols.
mismatched == call.op = "fromString" /\ Len(call.cellDataString) # call.rows * call.cols

\* C13: Board.fromString(rows, cols, s) with len(s) other than rows * cols ends
\* with a ValueError and hands back no Board: no cell read from s is stored.
C13_FromStringMismatch == mismatched => result.exc = ValueError /\ result.ret = None

C13_Witness ==
    /\ mismatched
    /\ Len(call.cellDataString) > call.rows * call.cols
    /\ call.rows * call.cols > 1
    /\ result.exc = ValueError

\* The sides of a cell and its corners, as vertices <<row, col>> of the grid:
\* the cell <<row, col>> has its upper left corner at the vertex <<row, col>>.
corner(row, col, cornerDir) ==
    CASE cornerDir = ULEFT -> <<row, col>>
      [] cornerDir = URIGHT -> <<row, col + 1>>
      [] cornerDir = LRIGHT -> <<row + 1, col + 1>>
      [] OTHER -> <<row + 1, col>>

side(row, col, direction) ==
    CASE direction = TOP -> {corner(row, col, ULEFT), corner(row, col, URIGHT)}
      [] direction = RIGHT -> {corner(row, col, URIGHT), corner(row, col, LRIGHT)}
      [] direction = BOT -> {corner(row, col, LLEFT), corner(row, col, LRIGHT)}
      [] OTHER -> {corner(row, col, ULEFT), corner(row, col, LLEFT)}

\* The endpoints of a border: those of the side of a cell that the border is.
endpoints(borderIdx) ==
    UNION {side(c[1], c[2], direction) :
            <<c, direction>> \in
                {x \in validCells \X {TOP, RIGHT, BOT, LEFT} :
                    _getBorderIdx(BoardTools.cols, x[1][1], x[1][2], x[2]) = borderIdx}}

\* The borders that touch a vertex.
touching(vertex) == {borderIdx \in validBorders : vertex \in endpoints(borderIdx)}

noRepeats(list) == Len(list) = Cardinality(Range(list))

\* C17: getConnectedBorders(b) returns two lists without repeats that are the
\* other borders touching each of the two endpoints of b: b is in neither, no
\* border is in both, each holds at most 3, and c is in a list of b exactly
\* when b is in a list of c.
C17_ConnectedBorders ==
    call.op = "getConnectedBorders" =>
        \E b \in {call.borderIdx} : \E conn \in {result.ret} :
            /\ result.exc = NoException
            /\ Cardinality(endpoints(b)) = 2
            /\ {Range(conn[1]), Range(conn[2])} = {touching(v) \ {b} : v \in endpoints(b)}
            /\ noRepeats(conn[1]) /\ noRepeats(conn[2])
            /\ ~InSeq(b, conn[1]) /\ ~InSeq(b, conn[2])
            /\ Range(conn[1]) \cap Range(conn[2]) = {}
            /\ Len(conn[1]) <= 3 /\ Len(conn[2]) <= 3
            /\ \A c \in validBorders :
                InSeq(c, conn[1] \o conn[2]) <=> InSeq(b, getConnectedBordersList(tools, c))

C17_Witness ==
    /\ call.op = "getConnectedBorders"
    /\ Len(result.ret[1]) = 2
    /\ Len(result.ret[2]) = 3

\* C18: for two borders idx1 and idx2, getCommonVertex(idx1, idx2) returns
\* None when they share no endpoint, and otherwise the borders touching an
\* endpoint they share, idx1 and idx2 among them.
C18_CommonVertex ==
    call.op = "getCommonVertex" /\ call.borderIdx1 # call.borderIdx2 =>
        \E shared \in {endpoints(call.borderIdx1) \cap endpoints(call.borderIdx2)} :
            IF shared = {}
            THEN result.ret = <<>>
            ELSE /\ \E v \in shared : Range(result.ret) = touching(v)
                 /\ InSeq(call.borderIdx1, result.ret)
                 /\ InSeq(call.borderIdx2, result.ret)

\* The cell across the corner cornerDir of the cell <<row, col>>.
diagonal(row, col, cornerDir) ==
    CASE cornerDir = ULEFT -> <<row - 1, col - 1>>
      [] cornerDir = URIGHT -> <<row - 1, col + 1>>
      [] cornerDir = LRIGHT -> <<row + 1, col + 1>>
      [] OTHER -> <<row + 1, col - 1>>

gridCorner(vertex) ==
    vertex[1] \in {0, BoardTools.rows} /\ vertex[2] \in {0, BoardTools.cols}

\* C19: getArms(row, col, D) is, without repeats, the borders touching the
\* vertex at corner D of the cell other than the four borders of the cell:
\* 2 of them when the cell across the corner exists, none at a corner of the
\* grid, 1 at any other vertex.
C19_Arms ==
    call.op = "getArms" =>
        \E v \in {corner(call.row, call.col, call.cornerDir)} :
            /\ result.exc = NoException
            /\ noRepeats(result.ret)
            /\ Range(result.ret) =
                    touching(v) \ Range(_getCellBorders(BoardTools.cols, call.row, call.col))
            /\ Len(result.ret) =
                    IF diagonal(call.row, call.col, call.cornerDir) \in validCells THEN 2
                    ELSE IF gridCorner(v) THEN 0
                    ELSE 1

C19_Witness ==
    /\ call.op = "getArms"
    /\ diagonal(call.row, call.col, call.cornerDir) \in validCells
    /\ call.cornerDir = LRIGHT
    /\ Len(result.ret) = 2

\* C20: BoardTools.isBorderHorizontal(idx) returns, for every valid border
\* index, a boolean: whether idx mod (2 * cols + 1) < cols.
C20_IsBorderHorizontal ==
    call.op = "isBorderHorizontal" =>
        /\ result.exc = NoException
        /\ result.ret = (call.borderIdx % (2 * BoardTools.cols + 1) < BoardTools.cols)

\* solveBoardFromScratch has read a guess and is about to clone the board for it.
cloning ==
    /\ pc = "inner"
    /\ currGuessIdx < guessList.len
    /\ \E g \in (IF guess # <<>> THEN {guess[1]} ELSE nextGuesses(guessList)) :
            heap[board.borders][g[1]] = UNSET

\* C14: the Board that clone() makes of the board is marked isClone and equals
\* the board in cell requirements, border statuses, cell groups, corner
\* entries and pokes, over a border list of its own that leaves the board's as
\* it is.
C14_CloneEqual ==
    cloning =>
        \E c \in {clone(board, heap)} :
            /\ c.board.isClone
            /\ c.board.cells = board.cells
            /\ c.heap[c.board.borders] = heap[board.borders]
            /\ c.board.cellGroups = board.cellGroups
            /\ c.board.cornerEntries = board.cornerEntries
            /\ c.board.pokes = board.pokes
            /\ c.board.borders # board.borders
            /\ c.heap[board.borders] = heap[board.borders]

\* The boards there are: the board of the solver and the clone, if any.
boards == {board} \cup Range(cloneBoard)

\* C15: reset() of a board leaves every border UNSET, every cell group None,
\* every corner entry UNKNOWN and no poke, and leaves rows, cols and the cell
\* requirements as they were.
C15_Reset ==
    \A b \in boards :
        \E r \in {reset(b, heap)} :
            /\ DOMAIN r.heap[r.board.borders] = DOMAIN heap[b.borders]
            /\ \A idx \in DOMAIN r.heap[r.board.borders] : r.heap[r.board.borders][idx] = UNSET
            /\ \A c \in cellIndices(b.rows, b.cols) :
                /\ r.board.cellGroups[c] = None
                /\ \A dxn \in 1 .. 4 : r.board.cornerEntries[c][dxn] = UNKNOWN
            /\ r.board.pokes = {}
            /\ r.board.rows = b.rows
            /\ r.board.cols = b.cols
            /\ r.board.cells = b.cells

\* solveBoardFromScratch is at its end, about to be called again, on a board
\* with borders set and cells in groups.
C15_Witness ==
    /\ pc = "done"
    /\ runs < MaxRuns
    /\ \E idx \in DOMAIN heap[board.borders] : heap[board.borders][idx] = ACTIVE
    /\ \E c \in DOMAIN board.cellGroups : board.cellGroups[c] # None
    /\ \E c \in DOMAIN board.cells : board.cells[c] # None

\* Every cell of the board is a 0.
allZero == \A c \in DOMAIN board.cells : board.cells[c] = 0

\* All four borders of every 0-cell of the board are BLANK.
zeroCellsBlank ==
    \A c \in DOMAIN board.cells :
        board.cells[c] = 0 =>
            \A i \in 1 .. 4 :
                heap[board.borders][_getCellBorders(BoardTools.cols, c[1], c[2])[i]] = BLANK

\* solveBoardFromScratch on a board of 0-cells: no clone is made, nothing is
\* raised, and at the end every border is BLANK.
zeroSolved ==
    allZero /\ pc # "idle" =>
        /\ cloneBoard = <<>>
        /\ pc # "failed"
        /\ pc = "done" => \A idx \in DOMAIN heap[board.borders] : heap[board.borders][idx] = BLANK

\* C16: solveBoardFromScratch on a board of 0-cells ends with every border
\* BLANK and tries no guess on a clone; and on any board, solveInit leaves
\* all four borders of every 0-cell BLANK.
C16_ZeroCells == []zeroSolved /\ [][resets => zeroCellsBlank']_vars

(***************************************************************************)
(* The rules of the deduction pass                                         *)
(***************************************************************************)
\* A _solve is running: its board is the one the rules are called on.
running == pc \in {"initial", "clone", "resolve"}

\* The board of the running _solve as the rules see it.
passWorld == world(solving, heap[solving.borders], solver.cornerEntry)

\* The call that led from w to r returned TRUE exactly when it changed a border.
reports(w, r) == r.exc = NoException => (r.ret <=> r.borders # w.borders)

\* C21: every rule function of the deduction pass returns TRUE if and only if
\* the call changed the status of at least one border. Stated for the rules of
\* a cell on every board a _solve runs on: processCell of the solver and
\* checkCellForContinuousUnsetBorders of solver/sub/cont_unset.py.
C21_RuleReturns ==
    running =>
        \E w \in {passWorld} : \A c \in cellIndices(w.rows, w.cols) :
            /\ reports(w, processCell(w, c[1], c[2]))
            /\ reports(w, cont_unset_checkCellForContinuousUnsetBorders(
                              w, CellInfo(w, c[1], c[2])))

\* The call of handleCellPoke that a pass makes first when the first cell of
\* prioCells is a 3-cell with an ACTIVE arm: processCell has changed nothing
\* before it pokes the cell at the first corner that has such an arm.
firstPoke(w) ==
    LET c == prioCellsOf(w.rows, w.cols, w.cells)[1]
        cellInfo == CellInfo(w, c[1], c[2])
        fill == fillOrRemoveRemainingUnsetBorders(w, cellInfo)
        activeArm(i) == getStatusCount(w, getArms(w, c[1], c[2], DiagonalDirection[i]))[2] > 0
    IN
    IF /\ w.cells[c] = 3
       /\ cellInfo.bdrActiveCount <= 3
       /\ cellInfo.bdrUnsetCount + cellInfo.bdrActiveCount >= 3
       /\ fill.exc = NoException /\ ~fill.ret
    THEN {<<c[1], c[2], DiagonalDirection[i]>> :
              i \in {j \in 1..4 : activeArm(j) /\ \A k \in 1..(j - 1) : ~activeArm(k)}}
    ELSE {}

\* What the poke of a cell at dxn has to leave behind, by the cell's number.
poked(w, r, row, col, dxn) ==
    LET opp == getCornerBorderIndices(w, row, col, dxnOpposite(dxn))
        armCount == getStatusCount(r, getArms(w, row, col, dxn))
    IN
    /\ w.cells[<<row, col>>] = 1 => r.borders[opp[1]] = BLANK /\ r.borders[opp[2]] = BLANK
    /\ w.cells[<<row, col>>] = 3 =>
          /\ r.borders[opp[1]] = ACTIVE /\ r.borders[opp[2]] = ACTIVE
          /\ armCount[2] = 1 => armCount[1] = 0

\* C22: after handleCellPoke(board, row, col, D) returns without an InvalidBoard
\* signal, both borders of the corner opposite to D are BLANK on a 1-cell; on
\* a 3-cell they are ACTIVE and, when exactly one arm at D is ACTIVE, no arm at
\* D is UNSET. Stated for the first poke of a pass and for every 1-cell.
C22_CellPoke ==
    running =>
        \E w \in {passWorld} :
            /\ \A p \in firstPoke(w) :
                  \E r \in {handleCellPoke(w, p[1], p[2], p[3])} :
                      r.exc = NoException => poked(w, r, p[1], p[2], p[3])
            /\ \A c \in cellIndices(w.rows, w.cols) : \A dxn \in Range(DiagonalDirection) :
                  \E r \in {handleCellPoke(w, c[1], c[2], dxn)} :
                      (w.cells[c] = 1 /\ r.exc = NoException) =>
                          poked(w, r, c[1], c[2], dxn)

\* C27: between two resets a corner entry only changes from UNKNOWN to POKE or
\* from UNKNOWN to SMOOTH; a label that is POKE or SMOOTH is never overwritten
\* (the contradicting deduction raises InvalidBoard instead). Stated for the
\* entries that the solver keeps for its board.
C27_CornerEntryOnce ==
    [][~resets =>
          \A c \in DOMAIN solver.cornerEntry : \A i \in 1..4 :
              solver.cornerEntry[c][i] # UNKNOWN =>
                  solver.cornerEntry'[c][i] = solver.cornerEntry[c][i]]_vars

(***************************************************************************)
(* The pokes of a board                                                    *)
(***************************************************************************)
\* The step is a call of initiatePoke with a triple that board.pokes holds.
pokesAgain ==
    /\ call'.op = "initiatePoke"
    /\ <<call'.row, call'.col, call'.dxn>> \in board.pokes

\* C23: every call of initiatePoke, handleCellPoke or handleSmoothCorner
\* terminates (no call nests until the interpreter gives up), and between two
\* resets initiatePoke propagates at most once per (row, col, direction): the
\* triples of board.pokes stay until the reset, a call puts its triple there,
\* and a call with a triple that is already there changes no border and
\* returns FALSE.
C23_PokeOnce ==
    /\ [](result.exc # RecursionError)
    /\ [][call'.op # "reset" => board.pokes \subseteq board'.pokes]_vars
    /\ [][call'.op = "initiatePoke" =>
              <<call'.row, call'.col, call'.dxn>> \in board'.pokes]_vars
    /\ [][pokesAgain =>
              /\ result' = [exc |-> NoException, ret |-> FALSE]
              /\ heap' = heap
              /\ board' = board]_vars

\* A 2-cell pokes a 2-cell again, after calls that have set borders: the call
\* returned FALSE.
C23_Witness ==
    /\ call.op = "initiatePoke" /\ call.again
    /\ result = [exc |-> NoException, ret |-> FALSE]
    /\ \E idx \in DOMAIN heap[board.borders] : heap[board.borders][idx] # UNSET
    /\ board.cells[<<call.row, call.col>>] = 2
    /\ \E target \in {_getCellIdxAtDiagCorner(board.rows, board.cols,
                                              call.row, call.col, call.dxn)} :
          target # <<>> /\ board.cells[target] = 2

(***************************************************************************)
(* The clue rules of the cell groups                                       *)
(***************************************************************************)
\* The turns of the loop of checkCellGroupClues on w: the board as each cell
\* of prioCells finds it, with the cell.
RECURSIVE clueTurns(_, _)
clueTurns(w, prioCells) ==
    IF w.exc # NoException \/ prioCells = <<>> THEN {}
    ELSE {<<w, Head(prioCells)>>}
             \cup clueTurns(checkCellGroupCluesFrom(w, <<Head(prioCells)>>, FALSE),
                            Tail(prioCells))

\* The turns of checkCellGroupClues in the turn of _solve that starts now:
\* solveObvious found no move and updateCellGroups has run.
cluePass ==
    IF ~running THEN {}
    ELSE With([w1 \in {solveObvious(passWorld)} |->
         IF w1.exc = NoException /\ ~w1.ret
         THEN With([g \in {updateCellGroups(w1)} |->
              clueTurns(g, prioCellsOf(g.rows, g.cols, g.cells))])
         ELSE {}])

\* The turns of 1-cells that have an UNSET border and whose TOP and BOT
\* neighbours have the same known group, with what the clue rules make of them.
topBotClues ==
    {<<t[1], CellInfo(t[1], t[2][1], t[2][2]),
       cellGroupClues(t[1], CellInfo(t[1], t[2][1], t[2][2]),
                      getAdjCellGroups(t[1], t[2][1], t[2][2]))>> :
        t \in {u \in cluePass :
                  /\ u[1].cells[u[2]] = 1
                  /\ getStatusCount(u[1], getCellBorders(u[1], u[2][1], u[2][2]))[1] > 0
                  /\ \E grp \in {getAdjCellGroups(u[1], u[2][1], u[2][2])} :
                         grp[1] # None /\ grp[1] = grp[3]}}

closedGroups(w) ==
    LET activeBorders == {b \in DOMAIN w.borders : w.borders[b] = ACTIVE}
    IN
    {group \in {connectedActive(w, activeBorders, {b}) : b \in activeBorders} :
        \A a \in group : \A c \in Range(getConnectedBordersList(w, a)) :
            w.borders[c] # UNSET}

\* The board that removeLoopMakingMove is called on in the turn of _solve that
\* starts now: the rules before it found no move.
loopPass ==
    IF ~running THEN {}
    ELSE {w \in {_solveRules(passWorld)} : w.exc = NoException /\ ~w.ret}

\* C25: removeLoopMakingMove raises InvalidBoardException whenever some group
\* of connected ACTIVE borders has no UNSET border at any of its vertices
\* while an UNSET border remains on the board, and in no other case.
C25_LoopRaises ==
    \A w \in loopPass : \A bdrIdx \in loopMoves(w) :
        (removeLoopMakingMove(w, bdrIdx).exc = InvalidBoardException)
            <=> (closedGroups(w) # {} /\ \E b \in DOMAIN w.borders : w.borders[b] = UNSET)

(***************************************************************************)
(* The guess list                                                          *)
(***************************************************************************)
\* The board getGuesses is called on now, if the next step calls it.
guessing ==
    IF \/ pc = "initialSolved" /\ isValid
       \/ pc = "guessing" /\ currGuessIdx >= guessList.len
    THEN {world(board, heap[board.borders], solver.cornerEntry)}
    ELSE {}

\* The borders of the cells with number reqNum.
bordersOfCells(w, reqNum) ==
    {bdrIdx \in DOMAIN w.borders :
        \E c \in DOMAIN w.cells :
            w.cells[c] = reqNum /\ InSeq(bdrIdx, getCellBorders(w, c[1], c[2]))}

\* C26: the guess list built for a board contains only UNSET borders and
\* every UNSET border at least once; borders of 1-cells are listed with guess
\* ACTIVE, borders of 3-cells with guess BLANK, and these stand in the part of
\* the list that comes before the guesses for the other UNSET borders.
C26_GuessList ==
    \A w \in guessing : \E g \in {getGuesses(w)} :
        g.exc = NoException =>
            LET unset == {b \in DOMAIN w.borders : w.borders[b] = UNSET}
                high == Range(g.ret.highPrio)
                low == Range(g.ret.lowPrio)
            IN
            /\ \A e \in high \cup low : e[1] \in unset
            /\ \A b \in unset : \E e \in high \cup low : e[1] = b
            /\ \A b \in unset \cap bordersOfCells(w, 1) : <<b, ACTIVE>> \in high
            /\ \A b \in unset \cap bordersOfCells(w, 3) : <<b, BLANK>> \in high
            /\ \A e \in high : \/ e[2] = ACTIVE /\ e[1] \in bordersOfCells(w, 1)
                               \/ e[2] = BLANK /\ e[1] \in bordersOfCells(w, 3)
            /\ \A e \in low : e[1] \notin bordersOfCells(w, 1) \cup bordersOfCells(w, 3)

(***************************************************************************)
(* Boards of several sizes                                                 *)
(*                                                                         *)
(* createBoard of main.py writes the size of the board it makes into the   *)
(* class attributes of BoardTools; Board.__init__ keeps rows and cols in   *)
(* the board and leaves BoardTools alone. board is a board that its        *)
(* caller still holds while createBoard goes on making boards.             *)
(***************************************************************************)
MaxBoardRows == 2
MaxBoardCols == 3

BoardSizes == (1 .. MaxBoardRows) \X (1 .. MaxBoardCols)

\* The puzzle without numbers on a grid of the size.
emptyPuzzle(size) == [i \in 1 .. size[1] * size[2] |-> "."]

\* The first createBoard of the program.
BoardsInit ==
    \E size \in BoardSizes :
        /\ BoardTools = [rows |-> size[1], cols |-> size[2]]
        /\ board = fromString(size[1], size[2], emptyPuzzle(size)).ret
        /\ heap = <<newBorders(size[1], size[2])>>
        /\ solver = <<>>
        /\ pc = "boards"
        /\ cloneBoard = <<>>
        /\ isValid = FALSE
        /\ currGuessIdx = 0
        /\ guessList = noGuesses
        /\ guess = <<>>
        /\ error = NoException
        /\ runs = 0
        /\ lastBorders = <<>>
        /\ call = [op |-> "createBoard", rows |-> size[1], cols |-> size[2], kept |-> FALSE]
        /\ result = noResult

\* createBoard once more: the caller goes on with the new board, or keeps the
\* board it has and puts the new one aside.
CreateBoard ==
    /\ pc = "boards"
    /\ \E size \in BoardSizes, kept \in BOOLEAN :
        /\ BoardTools' = [rows |-> size[1], cols |-> size[2]]
        /\ IF kept
           THEN UNCHANGED <<board, heap>>
           ELSE /\ board' = fromString(size[1], size[2], emptyPuzzle(size)).ret
                /\ heap' = <<newBorders(size[1], size[2])>>
        /\ call' = [op |-> "createBoard", rows |-> size[1], cols |-> size[2], kept |-> kept]
        /\ result' = noResult
    /\ UNCHANGED <<solver, pc, locals, error, runs, lastBorders>>

\* BoardTools.getBorderIdx(row, col, direction) for a cell of the board
BoardGetBorderIdx ==
    /\ pc = "boards"
    /\ \E cell \in cellIndices(board.rows, board.cols), direction \in Range(CardinalDirection) :
        /\ call' = [op |-> "getBorderIdx", row |-> cell[1], col |-> cell[2],
                    direction |-> direction]
        /\ result' = [exc |-> NoException,
                      ret |-> getBorderIdx(tools, cell[1], cell[2], direction)]
    /\ UNCHANGED program

\* BoardTools.getConnectedBorders(borderIdx) for a border of the board
BoardGetConnectedBorders ==
    /\ pc = "boards"
    /\ \E borderIdx \in DOMAIN heap[board.borders] :
        /\ call' = [op |-> "getConnectedBorders", borderIdx |-> borderIdx]
        /\ result' = [exc |-> NoException, ret |-> getConnectedBorders(tools, borderIdx)]
    /\ UNCHANGED program

\* BoardTools.getArms(row, col, cornerDir) for a cell of the board
BoardGetArms ==
    /\ pc = "boards"
    /\ \E cell \in cellIndices(board.rows, board.cols), cornerDir \in Range(DiagonalDirection) :
        /\ call' = [op |-> "getArms", row |-> cell[1], col |-> cell[2],
                    cornerDir |-> cornerDir]
        /\ result' = [exc |-> NoException,
                      ret |-> getArms(tools, cell[1], cell[2], cornerDir)]
    /\ UNCHANGED program

BoardsNext ==
    \/ CreateBoard
    \/ BoardGetBorderIdx
    \/ BoardGetConnectedBorders
    \/ BoardGetArms

BoardsSpec == BoardsInit /\ [][BoardsNext]_vars

\* The indices of the borders of the board.
ownBorders == DOMAIN heap[board.borders]

\* C28: the topology queries made for a board use that board's own rows and
\* cols: after boards of different sizes were created in any order,
\* getBorderIdx, getConnectedBorders and getArms called for a cell or border
\* of the board return what the board's size gives, indices of its borders.
C28_OwnSize ==
    /\ call.op = "getBorderIdx" =>
          /\ result.ret = _getBorderIdx(board.cols, call.row, call.col, call.direction)
          /\ result.ret \in ownBorders
    /\ call.op = "getConnectedBorders" =>
          /\ result.ret = _getConnectedBorders(board.rows, board.cols, call.borderIdx)
          /\ \A i \in 1 .. 2 : Range(result.ret[i]) \subseteq ownBorders
    /\ call.op = "getArms" =>
          /\ result.ret = _getArms(board.rows, board.cols, call.row, call.col, call.cornerDir)
          /\ Range(result.ret) \subseteq ownBorders

(***************************************************************************)
(* Loop-making moves and the solution                                      *)
(***************************************************************************)
\* The boards removeLoopMakingMove is called on now whose set borders all
\* agree with the solution of the uniquely solvable puzzle.
agreeingLoopPass ==
    IF ~uniquelySolvable THEN {}
    ELSE {w \in loopPass :
             \E status \in solutions : \A b \in DOMAIN w.borders :
                 w.borders[b] # UNSET => w.borders[b] = status[b]}

toggled(status) ==
    IF status = UNSET THEN ACTIVE
    ELSE IF status = ACTIVE THEN BLANK
    ELSE UNSET

\* How many borders are clicked between two calls of solveCurrentBoard.
MaxEdits == 2

EditPuzzles ==
    {[rows |-> 1, cols |-> 2, cellDataString |-> <<".", "1">>],
     [rows |-> 1, cols |-> 2, cellDataString |-> <<"3", ".">>]}

\* createBoard of main.py, then Control(board) with its Solver(board).
EditInit ==
    \E puzzle \in EditPuzzles :
        /\ BoardTools = [rows |-> puzzle.rows, cols |-> puzzle.cols]
        /\ board = fromString(puzzle.rows, puzzle.cols, puzzle.cellDataString).ret
        /\ heap = <<newBorders(puzzle.rows, puzzle.cols)>>
        /\ solver = [rows |-> puzzle.rows, cols |-> puzzle.cols,
                     initialized |-> FALSE, cornerEntry |-> <<>>]
        /\ pc = "events"
        /\ cloneBoard = <<>>
        /\ isValid = FALSE
        /\ currGuessIdx = 0
        /\ guessList = noGuesses
        /\ guess = <<>>
        /\ error = NoException
        /\ runs = 0
        /\ lastBorders = <<>>
        /\ call = noCall
        /\ result = noResult

\* Control.clickBorder: board.toggleBorder(borderIdx); runs counts the clicks
\* since the last solveCurrentBoard.
ToggleBorder ==
    /\ pc = "events"
    /\ runs < MaxEdits
    /\ \E borderIdx \in DOMAIN heap[board.borders] :
        /\ heap' = [heap EXCEPT ![board.borders][borderIdx] = toggled(@)]
        /\ call' = [op |-> "toggleBorder", borderIdx |-> borderIdx]
    /\ result' = noResult
    /\ runs' = runs + 1
    /\ UNCHANGED <<BoardTools, board, solver, pc, locals, error, lastBorders>>

\* solveCurrentBoard up to its call of _solve: new corner entries, and
\* solveInit the first time.
SolveCurrentBoard ==
    /\ pc = "events"
    /\ \E order \in orders(reqCells(board)) :
        LET cornerEntry == unknownCornerEntries(solver.rows, solver.cols)
            w == world(board, heap[board.borders], cornerEntry)
            w1 == IF ~solver.initialized THEN solveInit(w, order) ELSE w
        IN  /\ heap' = [heap EXCEPT ![board.borders] = w1.borders]
            /\ solver' = [solver EXCEPT !.cornerEntry = cornerEntry, !.initialized = TRUE]
    /\ pc' = "current"
    /\ call' = [op |-> "solveCurrentBoard"]
    /\ result' = noResult
    /\ runs' = 0
    /\ UNCHANGED <<BoardTools, board, locals, error, lastBorders>>

\* One turn of the loop of _solve for solveCurrentBoard; when _solve returns,
\* solveCurrentBoard prints isValid and len(self.getGuesses()).
SolveCurrentTurn ==
    /\ pc = "current"
    /\ \E w \in {_solveRules(world(board, heap[board.borders], solver.cornerEntry))} :
       \E bdrIdx \in loopMoves(w) :
       \E w1 \in {_solveLoop(w, bdrIdx)} :
            LET g == getGuesses(w1)
            IN  /\ heap' = [heap EXCEPT ![board.borders] = w1.borders]
                /\ solver' = [solver EXCEPT !.cornerEntry = w1.cornerEntry]
                /\ board' = [board EXCEPT !.cellGroups = w1.cellGroups]
                /\ IF w1.exc \notin {NoException, InvalidBoardException}
                   THEN /\ pc' = "failed"
                        /\ error' = w1.exc
                        /\ UNCHANGED <<isValid, result>>
                   ELSE IF w1.exc = NoException /\ w1.ret
                   THEN UNCHANGED <<pc, isValid, error, result>>
                   ELSE /\ isValid' = (w1.exc = NoException)
                        /\ IF g.exc # NoException
                           THEN pc' = "failed" /\ error' = g.exc /\ result' = result
                           ELSE /\ pc' = "events"
                                /\ error' = error
                                /\ result' = [exc |-> NoException, ret |-> None]
    /\ UNCHANGED <<BoardTools, call, cloneBoard, currGuessIdx, guessList, guess, runs, lastBorders>>

EditNext ==
    \/ ToggleBorder
    \/ SolveCurrentBoard
    \/ SolveCurrentTurn

EditSpec == EditInit /\ [][EditNext]_vars

\* solveCurrentBoard has returned, and its _solve with isValid True.
solvedValid ==
    /\ pc = "events"
    /\ call.op = "solveCurrentBoard"
    /\ result.exc = NoException
    /\ isValid

\* The labels of two cells with the border bdrIdx between them agree with
\* the border's status.
labelsAgree(c, d, bdrIdx) ==
    (board.cellGroups[c] # None /\ board.cellGroups[d] # None) =>
        /\ heap[board.borders][bdrIdx] = ACTIVE => board.cellGroups[c] # board.cellGroups[d]
        /\ heap[board.borders][bdrIdx] = BLANK => board.cellGroups[c] = board.cellGroups[d]

staleLabels ==
    \E c \in cellIndices(board.rows, board.cols) : \E i \in 1 .. 4 :
        \E d \in {_getCellIdxOfAdjCell(board.rows, board.cols, c[1], c[2],
                                       CardinalDirection[i])} :
            /\ d[1] # None /\ d[2] # None
            /\ ~labelsAgree(c, <<d[1], d[2]>>,
                            _getBorderIdx(board.cols, c[1], c[2], CardinalDirection[i]))

====
